---- MODULE Spec2Model ----
(***************************************************************************)
(* Face verification service: detection decoding, non-maximum suppression, *)
(* face selection, bounding-box geometry, embedding post-processing,       *)
(* embedding validation and similarity comparison.                         *)
(*                                                                         *)
(* Numbers.  The JavaScript code computes in IEEE-754 doubles.  Box        *)
(* geometry is modelled in exact rational arithmetic (a rational is a pair *)
(* <<n, d>> in lowest terms with d > 0).  The embedding arithmetic, where  *)
(* rounding decides the claims, is modelled in binary floating point with  *)
(* round-to-nearest-even on every operation and a mantissa of MantBits     *)
(* bits (a float is a pair <<m, e>> standing for m * 2^e).                 *)
(***************************************************************************)
EXTENDS Integers, Sequences, FiniteSets, TLC

VARIABLES
    nmsBoxes,       \* _applyNMS: the argument `boxes`
    nmsThreshold,   \* _applyNMS: the argument `threshold`
    nmsKept,        \* _applyNMS: the returned list `kept`
    nmsPc,          \* "idle" | "call" | "done"
    anchors,        \* FaceDetectionService: this.anchors (None until generated)
    genLast,        \* the anchor sequence the last generation returned
    genPrev,        \* the anchor sequence the generation before it returned
    genRuns,        \* how often the service has run the loops that compute the anchors
    detImpl,        \* last detectFaces call: "service" | "legacy" | "none"
    detMeta,        \* last detectFaces call: the image metadata
    detOutput,      \* last detectFaces call: the detector's output tensors
    detBoxes,       \* last detectFaces call: the returned boxes
    env,            \* configuration read from the environment at start-up
    fpPc,           \* request: "idle" | "start" | "detected" | "returned" | "failed" | "next" | "responded"
    fpMeta,         \* request: metadata returned by detectFaces
    fpBoxes,        \* request: boxes returned by detectFaces
    fpBest,         \* request: result of selectBestFace
    fpBox,          \* request: box returned by detectAndValidateFace
    fpError,        \* request: error thrown by detectAndValidateFace
    fpTrace,        \* request: the stages that have run, in order
    valPc,          \* embedding validation: "idle" | "done"
    valImpl,        \* embedding validation: "service" | "legacy"
    valInput,       \* embedding validation: the text of storedEmbedding
    valResult,      \* embedding validation: the array returned, or the error
    embPc,          \* embedding: "idle" | "done"
    embImpl,        \* embedding: "service" | "legacy"
    embRaw,         \* embedding: the recognizer's output
    embFlipped,     \* embedding: its output on the mirrored input, if run
    embResult,      \* embedding: the embedding returned, or the error
    cmpPc,          \* comparison: "idle" | "done"
    cmpImpl,        \* comparison: "service" | "legacy"
    cmpA,           \* comparison: the first vector
    cmpB,           \* comparison: the second vector
    cmpEnv,         \* comparison: the environment variable SIM_THRESHOLD
    cmpResult,      \* comparison: similarity, isMatch, or the error
    boxPc,          \* box geometry: "idle" | "done"
    boxOp,          \* box geometry: the function called
    boxArg,         \* box geometry: its arguments
    boxResult,      \* box geometry: the box returned, or the error
    rqPc,           \* route: the position of the handler of one request
    rqReq,          \* route: the request (route, req.file, req.body.storedEmbedding)
    rqCfg,          \* route: config.arcface read at start-up
    rqStored,       \* route: the array validateEmbedding returned
    rqMeta,         \* route: metadata returned by detectFaces
    rqOutput,       \* route: the detector's output tensors
    rqBoxes,        \* route: boxes returned by detectFaces
    rqBox,          \* route: box returned by detectAndValidateFace
    rqEmbedding,    \* route: embedding returned by encodeface
    rqResult,       \* route: result of detailedComparison
    rqError,        \* route: the error thrown, passed to next()
    rqTrace,        \* route: the stages that have run, in order
    rqCalls,        \* route: session.run calls of the detector and the recognizer
    rqResponses,    \* route: the responses sent, in order
    decPc,          \* anchor decoder: "idle" | "done"
    decImpl,        \* anchor decoder: "service" | "legacy"
    decArgs,        \* anchor decoder: regressors, classificators, image metadata
    decPushed,      \* anchor decoder: what the iteration of each anchor pushed
    decDetections,  \* anchor decoder: the returned list `detections`
    selPc,          \* selection: "idle" | "done"
    selImpl,        \* selection: "service" | "legacy"
    selArgs,        \* selection: the detection boxes, the image size, the configuration
    selBest,        \* selection: the box the face selector returned
    selBox,         \* selection: the box detectAndValidateFace returned
    selError,       \* selection: the error detectAndValidateFace threw
    ttaPc,          \* augmentation: "idle" | "done"
    ttaCfg,         \* augmentation: config.arcface (useTTAFlip, channelOrder)
    ttaInput,       \* augmentation: the preprocessed crop (nhwc, nchw, size)
    ttaCalls,       \* augmentation: the tensors the recognizer was run on, in order
    ttaOutputs,     \* augmentation: what the recognizer returned, in order
    ttaEmbedding,   \* augmentation: the embedding generateEmbedding returned
    lbPc,           \* letterbox: "idle" | "done"
    lbImpl,         \* letterbox: "service" | "legacy"
    lbMeta,         \* letterbox: the image metadata
    lbTransform     \* letterbox: the sizes and paddings computed

nmsVars == <<nmsBoxes, nmsThreshold, nmsKept, nmsPc>>
detVars == <<anchors, genLast, genPrev, genRuns, detImpl, detMeta, detOutput, detBoxes>>

fpVars == <<env, fpPc, fpMeta, fpBoxes, fpBest, fpBox, fpError, fpTrace>>

valVars == <<valPc, valImpl, valInput, valResult>>

embVars == <<embPc, embImpl, embRaw, embFlipped, embResult>>
cmpVars == <<cmpPc, cmpImpl, cmpA, cmpB, cmpEnv, cmpResult>>

boxVars == <<boxPc, boxOp, boxArg, boxResult>>

rqVars == <<rqPc, rqReq, rqCfg, rqStored, rqMeta, rqOutput, rqBoxes, rqBox, rqEmbedding,
            rqResult, rqError, rqTrace, rqCalls, rqResponses>>

decVars == <<decPc, decImpl, decArgs, decPushed, decDetections>>

selVars == <<selPc, selImpl, selArgs, selBest, selBox, selError>>

ttaVars == <<ttaPc, ttaCfg, ttaInput, ttaCalls, ttaOutputs, ttaEmbedding>>

lbVars == <<lbPc, lbImpl, lbMeta, lbTransform>>

vars == <<nmsVars, detVars, fpVars, valVars, embVars, cmpVars, boxVars, rqVars, decVars, selVars, ttaVars, lbVars>>

\* what the actions of one component leave unchanged
exceptNms == <<detVars, fpVars, valVars, embVars, cmpVars, boxVars, rqVars, decVars, selVars, ttaVars, lbVars>>
exceptDet == <<nmsVars, fpVars, valVars, embVars, cmpVars, boxVars, rqVars, decVars, selVars, ttaVars, lbVars>>
exceptFp == <<nmsVars, detVars, valVars, embVars, cmpVars, boxVars, rqVars, decVars, selVars, ttaVars, lbVars>>
exceptVal == <<nmsVars, detVars, fpVars, embVars, cmpVars, boxVars, rqVars, decVars, selVars, ttaVars, lbVars>>
exceptEmb == <<nmsVars, detVars, fpVars, valVars, cmpVars, boxVars, rqVars, decVars, selVars, ttaVars, lbVars>>
exceptCmp == <<nmsVars, detVars, fpVars, valVars, embVars, boxVars, rqVars, decVars, selVars, ttaVars, lbVars>>
exceptBox == <<nmsVars, detVars, fpVars, valVars, embVars, cmpVars, rqVars, decVars, selVars, ttaVars, lbVars>>
exceptRq == <<nmsVars, detVars, fpVars, valVars, embVars, cmpVars, boxVars, decVars, selVars, ttaVars, lbVars>>
exceptDec == <<nmsVars, detVars, fpVars, valVars, embVars, cmpVars, boxVars, rqVars, selVars, ttaVars, lbVars>>
exceptSel == <<nmsVars, detVars, fpVars, valVars, embVars, cmpVars, boxVars, rqVars, decVars, ttaVars, lbVars>>
exceptTta == <<nmsVars, detVars, fpVars, valVars, embVars, cmpVars, boxVars, rqVars, decVars, selVars, lbVars>>
exceptLb == <<nmsVars, detVars, fpVars, valVars, embVars, cmpVars, boxVars, rqVars, decVars, selVars, ttaVars>>

\* an optional value: None, or Some(v)
None == <<>>
Some(v) == <<v>>
IsSome(o) == o # <<>>
Get(o) == o[1]

----------------------------------------------------------------------------
(* Exact rational arithmetic *)

Abs(n) == IF n < 0 THEN -n ELSE n

RECURSIVE GCD(_, _)
GCD(a, b) == IF b = 0 THEN a ELSE GCD(b, a % b)

R(n, d) ==
    LET g == GCD(Abs(n), Abs(d))
        s == IF d < 0 THEN -1 ELSE 1
    IN  <<(s * n) \div g, (s * d) \div g>>

RInt(n) == <<n, 1>>
RZero == <<0, 1>>
ROne == <<1, 1>>
\* sums over the least common denominator
RAdd(a, b) ==
    LET g == GCD(a[2], b[2])
    IN  R(a[1] * (b[2] \div g) + b[1] * (a[2] \div g), (a[2] \div g) * b[2])
RNeg(a) == <<-a[1], a[2]>>
RSub(a, b) == RAdd(a, RNeg(b))
RMul(a, b) == R(a[1] * b[1], a[2] * b[2])
RDiv(a, b) == R(a[1] * b[2], a[2] * b[1])
\* a < b, by comparing integer parts and then the reciprocals of the
\* fractional parts (no product of numerator and denominator is formed)
RECURSIVE RLt(_, _)
RLt(a, b) ==
    LET qa == a[1] \div a[2]
        qb == b[1] \div b[2]
        ra == a[1] % a[2]
        rb == b[1] % b[2]
    IN  IF qa # qb THEN qa < qb
        ELSE IF rb = 0 THEN FALSE
        ELSE IF ra = 0 THEN TRUE
        ELSE RLt(<<b[2], rb>>, <<a[2], ra>>)
RLe(a, b) == ~RLt(b, a)
RMax(a, b) == IF RLt(a, b) THEN b ELSE a
RMin(a, b) == IF RLt(b, a) THEN b ELSE a
RAbs(a) == <<Abs(a[1]), a[2]>>
\* Math.floor and Math.round (round half up: floor(x + 0.5))
RFloor(a) == a[1] \div a[2]
RRound(a) == (2 * a[1] + a[2]) \div (2 * a[2])

----------------------------------------------------------------------------
(* utils/math.js: calculateIOU *)

\* [x, y, width, height, score], every field a rational
Box(x, y, w, h, s) == [x |-> x, y |-> y, width |-> w, height |-> h, score |-> s]

calculateIOU(boxA, boxB) ==
    LET x1 == RMax(boxA.x, boxB.x)
        y1 == RMax(boxA.y, boxB.y)
        x2 == RMin(RAdd(boxA.x, boxA.width), RAdd(boxB.x, boxB.width))
        y2 == RMin(RAdd(boxA.y, boxA.height), RAdd(boxB.y, boxB.height))
        width == RMax(RZero, RSub(x2, x1))
        height == RMax(RZero, RSub(y2, y1))
        intersection == RMul(width, height)
        areaA == RMul(boxA.width, boxA.height)
        areaB == RMul(boxB.width, boxB.height)
        union == RSub(RAdd(areaA, areaB), intersection)
    IN  IF RLe(union, RZero) THEN RZero ELSE RDiv(intersection, union)

----------------------------------------------------------------------------
(* services/faceDetectionService.js: _applyNMS (modelloader.js: applyNMS) *)

\* Array.prototype.sort((a, b) => b.score - a.score): a stable sort by
\* descending score, as insertion of each element after the elements
\* whose score is not smaller.
\* a sort that puts a box before the boxes of equal score
RECURSIVE InsertByScore_Unstable(_, _)
InsertByScore_Unstable(sorted, b) ==
    IF sorted = <<>> THEN <<b>>
    ELSE IF RLe(Head(sorted).score, b.score) THEN <<b>> \o sorted
    ELSE <<Head(sorted)>> \o InsertByScore_Unstable(Tail(sorted), b)

RECURSIVE InsertByScore(_, _)
InsertByScore(sorted, b) ==
    IF sorted = <<>> THEN <<b>>
    ELSE IF RLt(Head(sorted).score, b.score) THEN <<b>> \o sorted
    ELSE <<Head(sorted)>> \o InsertByScore(Tail(sorted), b)

RECURSIVE SortByScoreFrom(_, _, _)
SortByScoreFrom(boxes, i, acc) ==
    IF i > Len(boxes) THEN acc
    ELSE SortByScoreFrom(boxes, i + 1, InsertByScore(acc, boxes[i]))

SortByScore(boxes) == SortByScoreFrom(boxes, 1, <<>>)

\* the splice test of the inner loop
NmsRemove_Inverted(current, other, threshold) ==
    RLt(calculateIOU(current, other), threshold)

NmsRemove(current, other, threshold) ==
    RLt(threshold, calculateIOU(current, other))

\* the while loop: shift the head into kept, splice what overlaps it
RECURSIVE NmsLoop(_, _, _)
NmsLoop(sorted, kept, threshold) ==
    IF sorted = <<>> THEN kept
    ELSE LET current == Head(sorted)
             rest == SelectSeq(Tail(sorted),
                               LAMBDA b : ~NmsRemove(current, b, threshold))
         IN  NmsLoop(rest, Append(kept, current), threshold)

applyNMS(boxes, threshold) == NmsLoop(SortByScore(boxes), <<>>, threshold)

----------------------------------------------------------------------------
(* config/index.js: faceDetection (modelloader.js: DETECTION_CONFIG) *)

targetSize == 128
confidenceThreshold == R(1, 2)
nmsThresholdCfg == R(1, 2)
minFaceSize == R(2, 100)
maxFaceSize == R(8, 10)

----------------------------------------------------------------------------
(* faceDetectionService.js: _generateAnchors (modelloader.js: generateAnchors) *)

featureMaps ==
    << [size |-> 16, stride |-> 8, anchorsPerCell |-> 2],
       [size |-> 8, stride |-> 16, anchorsPerCell |-> 6] >>

\* the object pushed by the innermost loop body
AnchorAt_Transposed(fm, y, x, tSize) ==
    [ cx |-> R((2 * y + 1) * fm.stride, 2 * tSize),
      cy |-> R((2 * x + 1) * fm.stride, 2 * tSize),
      w  |-> R(fm.stride, tSize),
      h  |-> R(fm.stride, tSize) ]

AnchorAt(fm, y, x, tSize) ==
    [ cx |-> R((2 * x + 1) * fm.stride, 2 * tSize),
      cy |-> R((2 * y + 1) * fm.stride, 2 * tSize),
      w  |-> R(fm.stride, tSize),
      h  |-> R(fm.stride, tSize) ]

\* for (a = 0; a < fm.anchorsPerCell; a++) anchors.push(...)
CellAnchors(fm, y, x, tSize) ==
    [a \in 1..fm.anchorsPerCell |-> AnchorAt(fm, y, x, tSize)]

\* for (x = 0; x < fm.size; x++)
RECURSIVE RowAnchors(_, _, _, _)
RowAnchors(fm, y, x, tSize) ==
    IF x >= fm.size THEN <<>>
    ELSE CellAnchors(fm, y, x, tSize) \o RowAnchors(fm, y, x + 1, tSize)

\* for (y = 0; y < fm.size; y++)
RECURSIVE MapAnchors(_, _, _)
MapAnchors(fm, y, tSize) ==
    IF y >= fm.size THEN <<>>
    ELSE RowAnchors(fm, y, 0, tSize) \o MapAnchors(fm, y + 1, tSize)

\* for (const fm of featureMaps)
RECURSIVE AllAnchors(_, _)
AllAnchors(k, tSize) ==
    IF k > Len(featureMaps) THEN <<>>
    ELSE MapAnchors(featureMaps[k], 0, tSize) \o AllAnchors(k + 1, tSize)

generateAnchors(tSize) == AllAnchors(1, tSize)

\* generateAnchors(TARGET) / _generateAnchors(): the sequence for the
\* configured target size
ConfigAnchors == generateAnchors(targetSize)

----------------------------------------------------------------------------
(* faceDetectionService.js: _prepareInput (modelloader.js: detectFaces), *)
(* the letterbox transform of an image of meta.width x meta.height        *)

prepareInput(meta) ==
    LET TARGET == RInt(targetSize)
        scale == RMin(RDiv(TARGET, RInt(meta.width)), RDiv(TARGET, RInt(meta.height)))
        newWidth == RRound(RMul(RInt(meta.width), scale))
        newHeight == RRound(RMul(RInt(meta.height), scale))
        leftPad == RFloor(R(targetSize - newWidth, 2))
        topPad == RFloor(R(targetSize - newHeight, 2))
    IN  [ scale |-> scale, leftPad |-> leftPad, topPad |-> topPad,
          targetSize |-> targetSize,
          newWidth |-> newWidth, newHeight |-> newHeight,
          rightPad |-> targetSize - newWidth - leftPad,
          bottomPad |-> targetSize - newHeight - topPad ]

----------------------------------------------------------------------------
(* faceDetectionService.js: _mapFromLetterbox (modelloader.js: mapFromLetterbox) *)

mapFromLetterbox(bx, by, bw, bh, tSize, leftPad, topPad, scale, origWidth, origHeight) ==
    LET px == RMul(bx, RInt(tSize))
        py == RMul(by, RInt(tSize))
        pw == RMul(bw, RInt(tSize))
        ph == RMul(bh, RInt(tSize))
        half == R(1, 2)
        xTop == RMax(RZero, RDiv(RSub(RSub(px, RMul(pw, half)), RInt(leftPad)),
                                 RMul(scale, RInt(origWidth))))
        yTop == RMax(RZero, RDiv(RSub(RSub(py, RMul(ph, half)), RInt(topPad)),
                                 RMul(scale, RInt(origHeight))))
        wNorm == RMax(RZero, RDiv(RDiv(pw, scale), RInt(origWidth)))
        hNorm == RMax(RZero, RDiv(RDiv(ph, scale), RInt(origHeight)))
    IN  [ x |-> RMin(ROne, xTop), y |-> RMin(ROne, yTop),
          width |-> RMin(ROne, wNorm), height |-> RMin(ROne, hNorm) ]

\* the closure mapFunc / mapCoords of detectFaces
mapFunc(cx, cy, w, h, transform, meta) ==
    mapFromLetterbox(cx, cy, w, h, transform.targetSize, transform.leftPad,
                     transform.topPad, transform.scale, meta.width, meta.height)

----------------------------------------------------------------------------
(* Raw detector output arrays.  A flat array is kept sparsely: its length, *)
(* the entries that differ from the fill, and the fill, a pattern that     *)
(* repeats along the array.  Indices are 0-based as in the code.           *)

Arr(len, hot, fill) == [len |-> len, hot |-> hot, fill |-> fill]
FillAt(a, k) == a.fill[(k % Len(a.fill)) + 1]
ArrAt(a, k) == IF k \in DOMAIN a.hot THEN a.hot[k] ELSE FillAt(a, k)

\* Math.exp on the integer logits of the model, to three significant digits
Exp(l) ==
    CASE l <= -4 -> R(183, 10000)
      [] l = -3 -> R(498, 10000)
      [] l = -2 -> R(135, 1000)
      [] l = -1 -> R(368, 1000)
      [] l = 0 -> ROne
      [] l = 1 -> R(272, 100)
      [] l = 2 -> R(739, 100)
      [] l = 3 -> R(201, 10)
      [] OTHER -> R(546, 10)

Max(a, b) == IF a < b THEN b ELSE a

----------------------------------------------------------------------------
(* faceDetectionService.js: _decodeAnchors (modelloader.js: decodeAnchors) *)

regStride == 16

\* the confidence score computed from the logits of one anchor
LogitScore(clsStride, l0, l1) ==
    IF clsStride = 1
    THEN RDiv(ROne, RAdd(ROne, Exp(-l0)))
    ELSE LET m == Max(l0, l1)
             e0 == Exp(l0 - m)
             e1 == Exp(l1 - m)
         IN  RDiv(e1, RAdd(e0, e1))

\* NaN, the score computed from a logit read beyond the end of the array
NaN == <<0, 0>>
IsNaN(r) == r[2] = 0

\* the confidence score of anchor i; fillScore is the score of an anchor
\* whose logits are all fill entries, computed once for the array.  With
\* clsStride 1 the array has one entry per anchor; otherwise entries 2i and
\* 2i+1 are read, and an entry beyond the end is undefined: Math.max and
\* all that follows is NaN
AnchorScore(classificators, clsStride, i, fillScore) ==
    IF clsStride = 1
    THEN IF i \in DOMAIN classificators.hot
         THEN LogitScore(1, ArrAt(classificators, i), 0)
         ELSE fillScore
    ELSE IF i * 2 + 1 >= classificators.len
         THEN NaN
    ELSE IF i * 2 \in DOMAIN classificators.hot \/ i * 2 + 1 \in DOMAIN classificators.hot
         THEN LogitScore(2, ArrAt(classificators, i * 2), ArrAt(classificators, i * 2 + 1))
         ELSE fillScore

\* score < config.faceDetection.confidenceThreshold: false for NaN
BelowThreshold(score) == ~IsNaN(score) /\ RLt(score, confidenceThreshold)

\* DecodeAnchor with the anchor of the index before
DecodeAnchor_Misaligned(regressors, score, anchorList, i, tSize, transform, meta) ==
    LET offset == i * regStride
    IN  IF BelowThreshold(score) THEN None
        ELSE IF offset + 3 >= regressors.len THEN None
        ELSE LET dx == ArrAt(regressors, offset)
                 dy == ArrAt(regressors, offset + 1)
                 dw == ArrAt(regressors, offset + 2)
                 dh == ArrAt(regressors, offset + 3)
                 cx == RAdd(anchorList[Max(i, 1)].cx, R(dx, tSize))
                 cy == RAdd(anchorList[Max(i, 1)].cy, R(dy, tSize))
                 w == R(Abs(dw), tSize)
                 h == R(Abs(dh), tSize)
                 mapped == mapFunc(cx, cy, w, h, transform, meta)
             IN  IF RLe(mapped.width, RZero) \/ RLe(mapped.height, RZero) THEN None
                 ELSE IF RLt(mapped.width, minFaceSize) \/ RLt(maxFaceSize, mapped.width)
                      THEN None
                 ELSE IF RLt(mapped.height, minFaceSize) \/ RLt(maxFaceSize, mapped.height)
                      THEN None
                 ELSE Some(Box(mapped.x, mapped.y, mapped.width, mapped.height, score))

\* DecodeAnchor filtering on the size in the network input, before the mapping
DecodeAnchor_InputSize(regressors, score, anchorList, i, tSize, transform, meta) ==
    LET offset == i * regStride
    IN  IF BelowThreshold(score) THEN None
        ELSE IF offset + 3 >= regressors.len THEN None
        ELSE LET dx == ArrAt(regressors, offset)
                 dy == ArrAt(regressors, offset + 1)
                 dw == ArrAt(regressors, offset + 2)
                 dh == ArrAt(regressors, offset + 3)
                 cx == RAdd(anchorList[i + 1].cx, R(dx, tSize))
                 cy == RAdd(anchorList[i + 1].cy, R(dy, tSize))
                 w == R(Abs(dw), tSize)
                 h == R(Abs(dh), tSize)
                 mapped == mapFunc(cx, cy, w, h, transform, meta)
             IN  IF RLe(w, RZero) \/ RLe(h, RZero) THEN None
                 ELSE IF RLt(w, minFaceSize) \/ RLt(maxFaceSize, w) THEN None
                 ELSE IF RLt(h, minFaceSize) \/ RLt(maxFaceSize, h) THEN None
                 ELSE Some(Box(mapped.x, mapped.y, mapped.width, mapped.height, score))

\* one iteration of the loop over the anchors: the detection pushed for
\* anchor i, or None when the iteration ends in `continue`
DecodeAnchor(regressors, score, anchorList, i, tSize, transform, meta) ==
    LET offset == i * regStride
    IN  IF BelowThreshold(score) THEN None
        ELSE IF offset + 3 >= regressors.len THEN None
        ELSE LET dx == ArrAt(regressors, offset)
                 dy == ArrAt(regressors, offset + 1)
                 dw == ArrAt(regressors, offset + 2)
                 dh == ArrAt(regressors, offset + 3)
                 cx == RAdd(anchorList[i + 1].cx, R(dx, tSize))
                 cy == RAdd(anchorList[i + 1].cy, R(dy, tSize))
                 w == R(Abs(dw), tSize)
                 h == R(Abs(dh), tSize)
                 mapped == mapFunc(cx, cy, w, h, transform, meta)
             IN  IF RLe(mapped.width, RZero) \/ RLe(mapped.height, RZero) THEN None
                 ELSE IF RLt(mapped.width, minFaceSize) \/ RLt(maxFaceSize, mapped.width)
                      THEN None
                 ELSE IF RLt(mapped.height, minFaceSize) \/ RLt(maxFaceSize, mapped.height)
                      THEN None
                 ELSE Some(Box(mapped.x, mapped.y, mapped.width, mapped.height, score))

\* the loop of decodeAnchors: what each iteration pushes, by anchor.
\* clsStride = classificators.length / anchors.length selects the sigmoid
\* branch when it is 1 and the two-logit branch otherwise
DecodeIterations(regressors, classificators, anchorList, tSize, transform, meta) ==
    LET clsStride == IF classificators.len = Len(anchorList) THEN 1 ELSE 2
        fillScore == LogitScore(clsStride, FillAt(classificators, 0), FillAt(classificators, 1))
    IN  [k \in 1..Len(anchorList) |->
            DecodeAnchor(regressors,
                         AnchorScore(classificators, clsStride, k - 1, fillScore),
                         anchorList, k - 1, tSize, transform, meta)]

\* the detections pushed, in the order of the anchors
PushedDetections(pushed) ==
    LET kept == SelectSeq(pushed, IsSome)
    IN  [k \in 1..Len(kept) |-> Get(kept[k])]

decodeAnchors(regressors, classificators, anchorList, tSize, transform, meta) ==
    PushedDetections(DecodeIterations(regressors, classificators, anchorList, tSize,
                                      transform, meta))

----------------------------------------------------------------------------
(* faceDetectionService.js / modelloader.js: detectFaces, from the output  *)
(* of session.run to the returned boxes                                    *)

\* the direct format: quads [x1, y1, x2, y2] and parallel scores
DirectDetection(boxData, scoreData, i, transform, meta) ==
    LET x1 == boxData[i * 4 + 1]
        y1 == boxData[i * 4 + 2]
        x2 == boxData[i * 4 + 3]
        y2 == boxData[i * 4 + 4]
        cx == RMul(RAdd(x1, x2), R(1, 2))
        cy == RMul(RAdd(y1, y2), R(1, 2))
        w == RMax(RZero, RSub(x2, x1))
        h == RMax(RZero, RSub(y2, y1))
        mapped == mapFunc(cx, cy, w, h, transform, meta)
        score == IF i + 1 <= Len(scoreData) THEN scoreData[i + 1] ELSE ROne
    IN  Box(mapped.x, mapped.y, mapped.width, mapped.height, score)

DirectDetections(boxData, scoreData, transform, meta) ==
    [k \in 1..(Len(boxData) \div 4) |->
        DirectDetection(boxData, scoreData, k - 1, transform, meta)]

\* which branch the names of the output tensors select
OutputFormat(output) ==
    IF IsSome(output.boxes) /\ IsSome(output.scores) THEN "direct"
    ELSE IF IsSome(output.regressors) /\ IsSome(output.classificators) THEN "anchor"
    ELSE "none"

\* FaceDetectionService.detectFaces: the returned boxes
ServiceDetectBoxes(output, meta, anchorList) ==
    LET transform == prepareInput(meta)
        fmt == OutputFormat(output)
    IN  IF fmt = "direct"
        THEN SortByScore(applyNMS(
                 DirectDetections(Get(output.boxes), Get(output.scores), transform, meta),
                 nmsThresholdCfg))
        ELSE IF fmt = "anchor"
        THEN SortByScore(applyNMS(
                 decodeAnchors(Get(output.regressors), Get(output.classificators), anchorList,
                               transform.targetSize, transform, meta),
                 nmsThresholdCfg))
        ELSE <<>>

\* modelloader.js detectFaces: the returned boxes
LegacyDetectBoxes(output, meta) ==
    LET transform == prepareInput(meta)
        fmt == OutputFormat(output)
    IN  IF fmt = "direct"
        THEN SortByScore(DirectDetections(Get(output.boxes), Get(output.scores), transform, meta))
        ELSE IF fmt = "anchor"
        THEN SortByScore(applyNMS(
                 decodeAnchors(Get(output.regressors), Get(output.classificators),
                               ConfigAnchors, targetSize, transform, meta),
                 nmsThresholdCfg))
        ELSE <<>>

----------------------------------------------------------------------------
(* Math.sqrt.  ISqrt(n) is the square root of an integer 0 <= n < 2^30,   *)
(* rounded down to an integer; RHypot(a, b) is Math.sqrt(a*a + b*b) of two *)
(* rationals, rounded down to a multiple of 1/(den(a) * den(b)).           *)

ISqrt(n) ==
    LET hi == CHOOSE h \in 0..255 :
                  /\ (128 * h) * (128 * h) <= n
                  /\ (h = 255 \/ (128 * (h + 1)) * (128 * (h + 1)) > n)
    IN  CHOOSE s \in (128 * hi)..(128 * hi + 127) :
            s * s <= n /\ (s + 1) * (s + 1) > n

RHypot(a, b) ==
    R(ISqrt(a[1] * a[1] * b[2] * b[2] + b[1] * b[1] * a[2] * a[2]), a[2] * b[2])

----------------------------------------------------------------------------
(* config/index.js: faceDetection (selector part), faceRecognition,       *)
(* faceScoring.  SQUARE_CROP and FACE_EXPAND_RATIO come from the           *)
(* environment: they are the fields of the record env.                     *)

minPixelSize == 20
edgeMarginRatio == R(5, 100)
aspectRatioMin == R(6, 10)
aspectRatioMax == R(18, 10)
maxExpandRatio == R(20, 100)
\* config.faceRecognition defines no minPixelSize: cfg.minPixelSize is undefined
recognitionMinPixelSize == None
weightDetectionConfidence == R(65, 100)
weightCentrality == R(25, 100)
weightSizeRatio == R(10, 100)

ErrNoFaceDetected == [message |-> "NO_FACE_DETECTED", type |-> "DetectionError", statusCode |-> 400]
ErrFaceTooSmall == [message |-> "FACE_TOO_SMALL", type |-> "DetectionError", statusCode |-> 400]

----------------------------------------------------------------------------
(* services/faceProcessingService.js: selectBestFace                       *)

IMax(a, b) == IF a < b THEN b ELSE a
IMin(a, b) == IF b < a THEN b ELSE a

\* the first map: normalized box to pixel box, clamped to the image
ToPixels(box, imageWidth, imageHeight) ==
    LET x == IMax(0, RRound(RMul(box.x, RInt(imageWidth))))
        y == IMax(0, RRound(RMul(box.y, RInt(imageHeight))))
        width == IMax(1, RRound(RMul(box.width, RInt(imageWidth))))
        height == IMax(1, RRound(RMul(box.height, RInt(imageHeight))))
    IN  [ x |-> x, y |-> y,
          width |-> IF x + width > imageWidth THEN imageWidth - x ELSE width,
          height |-> IF y + height > imageHeight THEN imageHeight - y ELSE height,
          score |-> box.score ]

\* the filter: size, edge margin, aspect ratio
PassesFilters(box, imageWidth, imageHeight) ==
    LET shorter == RInt(IMin(imageWidth, imageHeight))
        minSize == RMax(RInt(minPixelSize), RMul(shorter, R(8, 100)))
        maxSize == RMul(shorter, R(65, 100))
        marginX == RMul(RInt(imageWidth), edgeMarginRatio)
        marginY == RMul(RInt(imageHeight), edgeMarginRatio)
        aspectRatio == R(box.width, box.height)
    IN  /\ ~(RLt(RInt(box.width), minSize) \/ RLt(RInt(box.height), minSize))
        /\ ~(RLt(maxSize, RInt(box.width)) \/ RLt(maxSize, RInt(box.height)))
        /\ ~(RLt(RInt(box.x), marginX) \/ RLt(RInt(box.y), marginY))
        /\ ~RLt(RSub(RInt(imageWidth), marginX), RInt(box.x + box.width))
        /\ ~RLt(RSub(RInt(imageHeight), marginY), RInt(box.y + box.height))
        /\ RLe(aspectRatioMin, aspectRatio)
        /\ RLe(aspectRatio, aspectRatioMax)

\* the second map: the composite score
CompositeScore(box, imageWidth, imageHeight) ==
    LET centerX == RAdd(RInt(box.x), R(box.width, 2))
        centerY == RAdd(RInt(box.y), R(box.height, 2))
        dx == RDiv(RAbs(RSub(centerX, R(imageWidth, 2))), R(imageWidth, 2))
        dy == RDiv(RAbs(RSub(centerY, R(imageHeight, 2))), R(imageHeight, 2))
        centrality == RSub(ROne, RMin(ROne, RHypot(dx, dy)))
        sizeRatio == RMin(ROne, R(box.width * box.height, imageWidth * imageHeight))
    IN  RAdd(RAdd(RMul(weightDetectionConfidence, box.score),
                  RMul(weightCentrality, centrality)),
             RMul(weightSizeRatio, sizeRatio))

WithCompositeScore(box, imageWidth, imageHeight) ==
    [ x |-> box.x, y |-> box.y, width |-> box.width, height |-> box.height,
      score |-> box.score,
      compositeScore |-> CompositeScore(box, imageWidth, imageHeight) ]

\* a sort that puts a candidate before the candidates of equal composite score
RECURSIVE InsertByComposite_Unstable(_, _)
InsertByComposite_Unstable(sorted, c) ==
    IF sorted = <<>> THEN <<c>>
    ELSE IF RLe(Head(sorted).compositeScore, c.compositeScore) THEN <<c>> \o sorted
    ELSE <<Head(sorted)>> \o InsertByComposite_Unstable(Tail(sorted), c)

\* candidates.sort((a, b) => b.compositeScore - a.compositeScore): stable
RECURSIVE InsertByComposite(_, _)
InsertByComposite(sorted, c) ==
    IF sorted = <<>> THEN <<c>>
    ELSE IF RLt(Head(sorted).compositeScore, c.compositeScore) THEN <<c>> \o sorted
    ELSE <<Head(sorted)>> \o InsertByComposite(Tail(sorted), c)

RECURSIVE SortByCompositeFrom(_, _, _)
SortByCompositeFrom(cands, i, acc) ==
    IF i > Len(cands) THEN acc
    ELSE SortByCompositeFrom(cands, i + 1, InsertByComposite(acc, cands[i]))

\* boxes.map(...).filter(...).map(...), from box k on
RECURSIVE CandidatesFrom(_, _, _, _)
CandidatesFrom(boxes, k, imageWidth, imageHeight) ==
    IF k > Len(boxes) THEN <<>>
    ELSE LET px == ToPixels(boxes[k], imageWidth, imageHeight)
         IN  (IF PassesFilters(px, imageWidth, imageHeight)
              THEN <<WithCompositeScore(px, imageWidth, imageHeight)>>
              ELSE <<>>)
             \o CandidatesFrom(boxes, k + 1, imageWidth, imageHeight)

Candidates(boxes, imageWidth, imageHeight) ==
    CandidatesFrom(boxes, 1, imageWidth, imageHeight)

\* a selector that skips the filter
selectBestFace_Unfiltered(boxes, imageWidth, imageHeight) ==
    IF boxes = <<>> THEN None
    ELSE Some(WithCompositeScore(ToPixels(boxes[1], imageWidth, imageHeight),
                                 imageWidth, imageHeight))

selectBestFace(boxes, imageWidth, imageHeight) ==
    IF boxes = <<>> THEN None
    ELSE LET candidates == Candidates(boxes, imageWidth, imageHeight)
         IN  IF candidates = <<>> THEN None
             ELSE Some(SortByCompositeFrom(candidates, 1, <<>>)[1])

----------------------------------------------------------------------------
(* faceProcessingService.js: expandBoundingBox, makeSquareBoundingBox,    *)
(* processBoundingBox                                                      *)

\* utils/math.js clamp
clamp(value, min, max) == IMin(IMax(value, min), max)

expandBoundingBox(box, imageWidth, imageHeight, expandRatio) ==
    LET expandX == RRound(RMul(RMul(RInt(box.width), expandRatio), R(1, 2)))
        expandY == RRound(RMul(RMul(RInt(box.height), expandRatio), R(1, 2)))
    IN  [ x |-> clamp(box.x - expandX, 0, imageWidth),
          y |-> clamp(box.y - expandY, 0, imageHeight),
          width |-> IMin(imageWidth - (box.x - expandX), box.width + 2 * expandX),
          height |-> IMin(imageHeight - (box.y - expandY), box.height + 2 * expandY) ]

\* makeSquareBoundingBox without the clamping of the top-left corner
makeSquareBoundingBox_Unclamped(box, imageWidth, imageHeight) ==
    LET centerX == RAdd(RInt(box.x), R(box.width, 2))
        centerY == RAdd(RInt(box.y), R(box.height, 2))
        side == IMax(box.width, box.height)
    IN  [ x |-> RRound(RSub(centerX, R(side, 2))),
          y |-> RRound(RSub(centerY, R(side, 2))),
          width |-> IMin(side, imageWidth), height |-> IMin(side, imageHeight) ]

makeSquareBoundingBox(box, imageWidth, imageHeight) ==
    LET centerX == RAdd(RInt(box.x), R(box.width, 2))
        centerY == RAdd(RInt(box.y), R(box.height, 2))
        side == IMax(box.width, box.height)
        x == clamp(RRound(RSub(centerX, R(side, 2))), 0, imageWidth - side)
        y == clamp(RRound(RSub(centerY, R(side, 2))), 0, imageHeight - side)
    IN  [ x |-> IMax(0, x), y |-> IMax(0, y),
          width |-> IMin(side, imageWidth), height |-> IMin(side, imageHeight) ]

\* value < cfg.minPixelSize, false when the limit is undefined
BelowLimit(value, limit) == IsSome(limit) /\ value < Get(limit)

\* the processed box, before the size check
ProcessedBox(box, imageWidth, imageHeight, cfg) ==
    LET expandRatio == RMin(maxExpandRatio, cfg.faceExpandRatio)
        expanded == expandBoundingBox(box, imageWidth, imageHeight, expandRatio)
    IN  IF cfg.useSquareCrop
        THEN makeSquareBoundingBox(expanded, imageWidth, imageHeight)
        ELSE expanded

\* processBoundingBox: [box |-> Some(processed box)] or [error |-> thrown error]
processBoundingBox(box, imageWidth, imageHeight, cfg) ==
    LET processedBox == ProcessedBox(box, imageWidth, imageHeight, cfg)
    IN  IF \/ BelowLimit(processedBox.width, recognitionMinPixelSize)
           \/ BelowLimit(processedBox.height, recognitionMinPixelSize)
        THEN [box |-> None, error |-> Some(ErrFaceTooSmall)]
        ELSE [box |-> Some(processedBox), error |-> None]

\* detectAndValidateFace after detectFaces has returned `boxes`:
\* [best, box, error]
ValidateFace(boxes, imageWidth, imageHeight, cfg) ==
    IF boxes = <<>>
    THEN [best |-> None, box |-> None, error |-> Some(ErrNoFaceDetected)]
    ELSE LET bestFace == selectBestFace(boxes, imageWidth, imageHeight)
         IN  IF ~IsSome(bestFace)
             THEN [best |-> None, box |-> None, error |-> Some(ErrNoFaceDetected)]
             ELSE LET processed == processBoundingBox(Get(bestFace), imageWidth,
                                                      imageHeight, cfg)
                  IN  [best |-> bestFace, box |-> processed.box,
                       error |-> processed.error]

\* db.js (legacy server): expandFaceBox
expandFaceBox(box, imgWidth, imgHeight, expandRatio) ==
    LET expandX == RRound(RMul(RMul(RInt(box.width), expandRatio), R(1, 2)))
        expandY == RRound(RMul(RMul(RInt(box.height), expandRatio), R(1, 2)))
    IN  [ x |-> IMax(0, box.x - expandX),
          y |-> IMax(0, box.y - expandY),
          width |-> IMin(imgWidth - (box.x - expandX), box.width + 2 * expandX),
          height |-> IMin(imgHeight - (box.y - expandY), box.height + 2 * expandY) ]

\* ensureSquareBox: one coordinate of the top-left corner
SquareOrigin(centre, side, limit) ==
    LET c0 == RRound(RSub(centre, R(side, 2)))
        c1 == IF c0 < 0 THEN 0 ELSE c0
    IN  IF c1 + side > limit THEN limit - side ELSE c1

\* db.js (legacy server): ensureSquareBox
ensureSquareBox(box, imgWidth, imgHeight) ==
    LET cx == RAdd(RInt(box.x), R(box.width, 2))
        cy == RAdd(RInt(box.y), R(box.height, 2))
        side == IMax(box.width, box.height)
    IN  [ x |-> IMax(0, SquareOrigin(cx, side, imgWidth)),
          y |-> IMax(0, SquareOrigin(cy, side, imgHeight)),
          width |-> IMin(side, imgWidth), height |-> IMin(side, imgHeight) ]

LegacyErrFaceTooSmall ==
    [ message |-> "Detected face is too small. Please provide a clearer image with a larger face.",
      type |-> "none", statusCode |-> 400 ]

\* legacy detectAndValidateFace, lines 183-200: the expanded (and squared)
\* box, before the size check
LegacyExpandedBox(bestFace, imgWidth, imgHeight, cfg) ==
    LET tunedExpand == RMin(R(20, 100), cfg.faceExpandRatio)
        expanded == expandFaceBox(bestFace, imgWidth, imgHeight, tunedExpand)
    IN  IF cfg.useSquareCrop
        THEN ensureSquareBox(expanded, imgWidth, imgHeight)
        ELSE expanded

\* legacy detectAndValidateFace, lines 183-200
LegacyProcessBox(bestFace, imgWidth, imgHeight, cfg) ==
    LET expandedBox == LegacyExpandedBox(bestFace, imgWidth, imgHeight, cfg)
    IN  IF expandedBox.width < 20 \/ expandedBox.height < 20
        THEN [box |-> None, error |-> Some(LegacyErrFaceTooSmall)]
        ELSE [box |-> Some(expandedBox), error |-> None]


----------------------------------------------------------------------------
(* utils/validation.js: validateEmbedding; db.js (legacy server): parsing  *)
(* of storedEmbedding in POST /compare.                                    *)
(*                                                                         *)
(* The argument is JSON text.  A text is [shape, tokens]: shape "array"    *)
(* for "[t1, ..., tn]", "scalar" for a single token, "object" for "{}",    *)
(* "malformed" for text that is no JSON.  A token is [kind, sign, v]:      *)
(*   "literal"   a number literal in the range of doubles, of value v;     *)
(*   "overflow"  a number literal beyond it, such as 1e999 or -1e999;      *)
(*   "ident"     NaN, Infinity or -Infinity written out: not JSON;         *)
(*   "null", "string"  the JSON values null and "...".                     *)
(* A parsed value is [kind, sign, v] with kind "number" (finite, of value  *)
(* v), "infinity" (of that sign), "null" or "string".                      *)

embeddingDimension == 512

Token(kind, sign, v) == [kind |-> kind, sign |-> sign, v |-> v]
Literal(v) == Token("literal", 1, v)

ErrorMessages ==
    [ NO_IMAGE_PROVIDED |-> "No image provided",
      INVALID_FILE_TYPE |-> "Invalid file type. Please provide an image file.",
      FILE_TOO_LARGE |-> "File size exceeds maximum limit",
      MISSING_STORED_EMBEDDING |-> "Missing storedEmbedding parameter",
      INVALID_EMBEDDING_FORMAT |-> "storedEmbedding must be an array of 512 numbers",
      INVALID_EMBEDDING_VALUES |-> "storedEmbedding must contain only valid numbers",
      SIMILARITY_CALCULATION_FAILED |->
          "Failed to calculate similarity. Embeddings may be invalid." ]

\* new AppError(message, type, statusCode); a message is a sequence of parts
AppError(message, type, statusCode) ==
    [message |-> message, type |-> type, statusCode |-> statusCode]

\* JSON.parse of one token
ParseToken(t) ==
    CASE t.kind = "literal" -> [kind |-> "number", sign |-> 1, v |-> t.v]
      [] t.kind = "overflow" -> [kind |-> "infinity", sign |-> t.sign, v |-> RZero]
      [] OTHER -> [kind |-> t.kind, sign |-> 1, v |-> RZero]

\* JSON.parse: [ok, isArray, value] or a SyntaxError
JsonParse(text) ==
    IF \/ text.shape = "malformed"
       \/ \E i \in 1..Len(text.tokens) : text.tokens[i].kind = "ident"
    THEN [ok |-> FALSE, isArray |-> FALSE, value |-> <<>>]
    ELSE [ok |-> TRUE, isArray |-> text.shape = "array",
          value |-> [i \in 1..Len(text.tokens) |-> ParseToken(text.tokens[i])]]

SyntaxErrorMessage == "Unexpected token in JSON"

\* typeof val === 'number' && !isNaN(val)
IsValidNumber(val) == val.kind \in {"number", "infinity"}

Accepted(value) == [ok |-> TRUE, value |-> value, error |-> None]
Rejected(error) == [ok |-> FALSE, value |-> <<>>, error |-> Some(error)]

\* validateEmbedding without the length check
validateEmbedding_NoLengthCheck(text) ==
    LET parsed == JsonParse(text)
    IN  IF ~parsed.ok
        THEN Rejected(AppError(<<"Invalid embedding format: ", SyntaxErrorMessage>>,
                               "ValidationError", 400))
        ELSE IF ~parsed.isArray
        THEN Rejected(AppError(<<ErrorMessages.INVALID_EMBEDDING_FORMAT>>,
                               "ValidationError", 400))
        ELSE IF ~(\A i \in 1..Len(parsed.value) : IsValidNumber(parsed.value[i]))
        THEN Rejected(AppError(<<ErrorMessages.INVALID_EMBEDDING_VALUES>>,
                               "ValidationError", 400))
        ELSE Accepted(parsed.value)

validateEmbedding(text) ==
    LET parsed == JsonParse(text)
    IN  IF ~parsed.ok
        THEN Rejected(AppError(<<"Invalid embedding format: ", SyntaxErrorMessage>>,
                               "ValidationError", 400))
        ELSE IF ~parsed.isArray
        THEN Rejected(AppError(<<ErrorMessages.INVALID_EMBEDDING_FORMAT>>,
                               "ValidationError", 400))
        ELSE IF Len(parsed.value) # embeddingDimension
        THEN Rejected(AppError(<<ErrorMessages.INVALID_EMBEDDING_FORMAT>>,
                               "ValidationError", 400))
        ELSE IF ~(\A i \in 1..Len(parsed.value) : IsValidNumber(parsed.value[i]))
        THEN Rejected(AppError(<<ErrorMessages.INVALID_EMBEDDING_VALUES>>,
                               "ValidationError", 400))
        ELSE Accepted(parsed.value)

\* legacy POST /compare, lines 264-278: the stored embedding, or the 400
\* response { success: false, error: `Invalid embedding format: ${e.message}` }
LegacyParseEmbedding(text) ==
    LET parsed == JsonParse(text)
    IN  IF ~parsed.ok
        THEN Rejected(AppError(<<"Invalid embedding format: ", SyntaxErrorMessage>>,
                               "none", 400))
        ELSE IF ~parsed.isArray \/ Len(parsed.value) # 512
        THEN Rejected(AppError(<<"Invalid embedding format: ",
                                 "storedEmbedding must be an array of 512 numbers">>,
                               "none", 400))
        ELSE IF ~(\A i \in 1..Len(parsed.value) : IsValidNumber(parsed.value[i]))
        THEN Rejected(AppError(<<"Invalid embedding format: ",
                                 "storedEmbedding must contain only valid numbers">>,
                               "none", 400))
        ELSE Accepted(parsed.value)

----------------------------------------------------------------------------
(* JavaScript numbers in the embedding arithmetic (utils/math.js)          *)
(*                                                                         *)
(* A number is <<m, e>>, of value m * 2^e, in binary floating point with   *)
(* MantBits bits of precision: m = 0 and e = 0, or 2^(MantBits-1) <= |m| < *)
(* 2^MantBits.  Every operation rounds its exact result to the nearest     *)
(* number, ties to the even mantissa, as IEEE 754 arithmetic does with 53  *)
(* bits.  The exponent is not bounded: the values used stay far from the   *)
(* overflow and underflow thresholds of a double.                          *)

MantBits == 13

Pow2(k) == 2^k

\* the number of bits of n >= 0
Bits(n) ==
    IF n >= Pow2(30) THEN 31
    ELSE CHOOSE b \in 0..30 : n < Pow2(b) /\ (b = 0 \/ Pow2(b - 1) <= n)

Sign(m) == IF m < 0 THEN -1 ELSE 1

\* m * 2^e rounded to MantBits bits, ties to even
FRound(m, e) ==
    IF m = 0 THEN <<0, 0>>
    ELSE IF Bits(Abs(m)) <= MantBits
    THEN <<m * Pow2(MantBits - Bits(Abs(m))), e - (MantBits - Bits(Abs(m)))>>
    ELSE LET k == Bits(Abs(m)) - MantBits
             q == Abs(m) \div Pow2(k)
             r == Abs(m) % Pow2(k)
             up == r > Pow2(k - 1) \/ (r = Pow2(k - 1) /\ q % 2 = 1)
         IN  IF up /\ q + 1 = Pow2(MantBits)
             THEN <<Sign(m) * Pow2(MantBits - 1), e + k + 1>>
             ELSE <<Sign(m) * (IF up THEN q + 1 ELSE q), e + k>>

FZero == <<0, 0>>

\* the values that are not finite: NaN, Infinity and -Infinity (no rounded
\* number has the mantissa 0 or 1 with these exponents)
FNaN == <<0, 1>>
FInfinity == <<1, 0>>
FNegInfinity == <<-1, 0>>
IsFinite(a) == a \notin {FNaN, FInfinity, FNegInfinity}
AllFinite(v) == \A i \in 1..Len(v) : IsFinite(v[i])

\* a + b when a or b is not finite
NonFiniteSum(a, b) ==
    IF a = FNaN \/ b = FNaN THEN FNaN
    ELSE IF IsFinite(a) THEN b
    ELSE IF IsFinite(b) \/ a = b THEN a
    ELSE FNaN

\* the number nearest to the integer n
F(n) == FRound(n, 0)

\* the number nearest to n/d (d > 0): a decimal literal, parseFloat
FRat(n, d) ==
    IF n = 0 THEN FZero
    ELSE LET s == IMax(0, MantBits + 2 + Bits(d) - Bits(Abs(n)))
             q == (Abs(n) * Pow2(s)) \div d
             sticky == IF (Abs(n) * Pow2(s)) % d = 0 THEN 0 ELSE 1
         IN  FRound(Sign(n) * (2 * q + sticky), 0 - s - 1)

FNeg(a) == <<0 - a[1], a[2]>>

\* a + b for a[2] >= b[2], both nonzero
FAddAligned(a, b) ==
    IF a[2] - b[2] > MantBits + 2 THEN a
    ELSE FRound(a[1] * Pow2(a[2] - b[2]) + b[1], b[2])

FAdd(a, b) ==
    IF a[1] = 0 THEN b
    ELSE IF b[1] = 0 THEN a
    ELSE IF a[2] >= b[2] THEN FAddAligned(a, b)
    ELSE FAddAligned(b, a)

FMul(a, b) == FRound(a[1] * b[1], a[2] + b[2])

\* a / b, b nonzero
FDiv(a, b) ==
    IF a[1] = 0 THEN FZero
    ELSE LET n == Abs(a[1]) * Pow2(MantBits + 2)
             q == n \div Abs(b[1])
             sticky == IF n % Abs(b[1]) = 0 THEN 0 ELSE 1
         IN  FRound(Sign(a[1]) * Sign(b[1]) * (2 * q + sticky),
                    a[2] - b[2] - MantBits - 3)

\* Math.sqrt(a), a >= 0
FSqrt(a) ==
    IF a[1] = 0 THEN FZero
    ELSE LET k == IF (a[2] - (MantBits + 1)) % 2 = 0 THEN MantBits + 1 ELSE MantBits + 2
             n == a[1] * Pow2(k)
             s == ISqrt(n)
             sticky == IF s * s = n THEN 0 ELSE 1
         IN  FRound(2 * s + sticky, ((a[2] - k) \div 2) - 1)

\* a < b
FLt(a, b) == FAdd(a, FNeg(b))[1] < 0

\* a >= b
FGe(a, b) == ~FLt(a, b)

\* the value of a number as a rational, for values of small exponent
FValue(a) ==
    IF a[2] >= 0 THEN RInt(a[1] * Pow2(a[2])) ELSE R(a[1], Pow2(0 - a[2]))

\* value.toFixed(4), as the count of ten-thousandths: the nearest one, the
\* one of larger magnitude at a tie
ToFixed4(a) ==
    IF a[2] >= 0 THEN a[1] * 10000 * Pow2(a[2])
    ELSE IF 0 - a[2] > 29 THEN 0
    ELSE Sign(a[1]) * ((2 * Abs(a[1]) * 10000 + Pow2(0 - a[2])) \div Pow2(1 - a[2]))

\* a vector of numbers from a tuple of integers
Vec(ints) == [i \in 1..Len(ints) |-> F(ints[i])]

\* the vector of length n that starts with the integers ints, 0 elsewhere
PaddedVec(ints, n) ==
    [i \in 1..n |-> IF i <= Len(ints) THEN F(ints[i]) ELSE FZero]

\* the first index from i on where both vectors are nonzero, or 0
NextIndex(a, b, i) ==
    LET support == {j \in i..Len(a) : a[j][1] # 0 /\ b[j][1] # 0}
    IN  IF support = {} THEN 0
        ELSE CHOOSE j \in support : \A l \in support : j <= l

\* for (i = from; i < length; i++) acc += a[i] * b[i], the vectors being of
\* equal length; a step whose product is 0 leaves acc as it is
RECURSIVE SumProducts(_, _, _, _)
SumProducts(a, b, from, acc) ==
    CHOOSE r \in
      { IF j = 0 THEN acc
        ELSE CHOOSE r2 \in { SumProducts(a, b, j + 1, x) :
                               x \in {FAdd(acc, FMul(a[j], b[j]))} } : TRUE :
          j \in {NextIndex(a, b, from)} } : TRUE

\* dotProduct / (Math.sqrt(normA) * Math.sqrt(normB))
CosineOf(dotProduct, normA, normB) ==
    IF normA[1] = 0 \/ normB[1] = 0 THEN FZero
    ELSE FDiv(dotProduct, FMul(FSqrt(normA), FSqrt(normB)))

\* cosineSimilarity: null (None) or the similarity
cosineSimilarity(vectorA, vectorB) ==
    IF Len(vectorA) # Len(vectorB) THEN None
    ELSE CHOOSE r \in
           { Some(CosineOf(d, na, nb)) :
               d \in {SumProducts(vectorA, vectorB, 1, FZero)},
               na \in {SumProducts(vectorA, vectorA, 1, FZero)},
               nb \in {SumProducts(vectorB, vectorB, 1, FZero)} } : TRUE

\* Math.sqrt(norm) || 1.0
NormOrOne(norm) == IF FSqrt(norm)[1] = 0 THEN F(1) ELSE FSqrt(norm)

\* l2Normalize
\* l2Normalize of a vector with an element that is not finite: with a NaN
\* the norm is NaN and `Math.sqrt(norm) || 1.0` is 1; otherwise the norm is
\* Infinity, v / norm is 0 for a finite v and NaN for an infinite one
NormalizeNonFinite(vector) ==
    IF \E i \in 1..Len(vector) : vector[i] = FNaN THEN vector
    ELSE [i \in 1..Len(vector) |-> IF IsFinite(vector[i]) THEN FZero ELSE FNaN]

l2Normalize(vector) ==
    IF ~AllFinite(vector) THEN NormalizeNonFinite(vector)
    ELSE CHOOSE r \in
      { [i \in 1..Len(vector) |-> FDiv(vector[i], norm)] :
          norm \in {NormOrOne(SumProducts(vector, vector, 1, FZero))} } : TRUE

\* embedding[i] = 0.5 * (embedding[i] + flippedEmbedding[i]) for every i
\* below both lengths
FHalf == FRat(1, 2)

AverageFlip(embedding, flippedEmbedding) ==
    [i \in 1..Len(embedding) |->
        IF i > Len(flippedEmbedding) THEN embedding[i]
        ELSE IF IsFinite(embedding[i]) /\ IsFinite(flippedEmbedding[i])
        THEN FMul(FHalf, FAdd(embedding[i], flippedEmbedding[i]))
        ELSE NonFiniteSum(embedding[i], flippedEmbedding[i])]

\* generateEmbedding (runArcFace in modelloader.js): raw is the recognizer's
\* output, flipped its output on the mirrored input when the flip
\* augmentation applies, None otherwise
generateEmbedding(raw, flipped) ==
    CHOOSE r \in
      { l2Normalize(embedding) :
          embedding \in {IF IsSome(flipped) THEN AverageFlip(raw, Get(flipped))
                         ELSE raw} } : TRUE

\* the embedding if it has the length wanted, the Error thrown otherwise
CheckedEmbedding(embedding, length, message) ==
    IF Len(embedding) # length
    THEN [embedding |-> None, error |-> Some(message)]
    ELSE [embedding |-> Some(embedding), error |-> None]

\* encodeface: the embedding, or the Error thrown
encodeface(raw, flipped) ==
    CHOOSE r \in
      { CheckedEmbedding(embedding, embeddingDimension,
                         "Failed to generate valid embedding") :
          embedding \in {generateEmbedding(raw, flipped)} } : TRUE

\* runArcFace of modelloader.js and the length check of the legacy routes
LegacyEncode(raw, flipped) ==
    CHOOSE r \in
      { CheckedEmbedding(embedding, 512,
          "Failed to generate valid face embedding. Please try with a different image.") :
          embedding \in {generateEmbedding(raw, flipped)} } : TRUE

\* parseFloat(process.env.SIM_THRESHOLD || '0.45'): the variable is unset
\* (None) or holds the decimal n/d
similarityThreshold(simThreshold) ==
    IF IsSome(simThreshold)
    THEN FRat(Get(simThreshold)[1], Get(simThreshold)[2])
    ELSE FRat(45, 100)

ErrSimilarityCalculationFailed ==
    AppError(<<ErrorMessages.SIMILARITY_CALCULATION_FAILED>>, "ProcessingError", 500)

\* CompareWith with the match test turned round
CompareWith_Inverted(similarity, threshold) ==
    IF ~IsSome(similarity)
    THEN [similarity |-> None, reported |-> None, isMatch |-> None,
          error |-> Some(ErrSimilarityCalculationFailed)]
    ELSE [similarity |-> similarity,
          reported |-> Some(ToFixed4(Get(similarity))),
          isMatch |-> Some(FGe(threshold, Get(similarity))),
          error |-> None]

\* FaceComparisonService.compareEmbeddings (and lines 290-312 of the legacy
\* POST /compare): similarity is the value computed, reported the
\* similarity of the response, in ten-thousandths
CompareWith(similarity, threshold) ==
    IF ~IsSome(similarity)
    THEN [similarity |-> None, reported |-> None, isMatch |-> None,
          error |-> Some(ErrSimilarityCalculationFailed)]
    ELSE [similarity |-> similarity,
          reported |-> Some(ToFixed4(Get(similarity))),
          isMatch |-> Some(FGe(Get(similarity), threshold)),
          error |-> None]

compareEmbeddings(embedding1, embedding2, simThreshold) ==
    CHOOSE r \in
      { CompareWith(s, t) :
          s \in {cosineSimilarity(embedding1, embedding2)},
          t \in {similarityThreshold(simThreshold)} } : TRUE

\* legacy POST /compare, lines 290-312: the thrown Error is answered with 500
LegacyCompareEmbeddings(embedding1, embedding2, simThreshold) ==
    [compareEmbeddings(embedding1, embedding2, simThreshold) EXCEPT
        !.error = IF IsSome(@)
                  THEN Some(AppError(
                      <<"Failed to calculate similarity. Embeddings may be invalid.">>,
                      "none", 500))
                  ELSE None]

----------------------------------------------------------------------------
(* The variables of a component that a specification does not exercise *)

NmsIdle ==
    /\ nmsBoxes = <<>>
    /\ nmsThreshold = RZero
    /\ nmsKept = <<>>
    /\ nmsPc = "idle"

DetIdle ==
    /\ anchors = None
    /\ genLast = None
    /\ genPrev = None
    /\ genRuns = 0
    /\ detImpl = "none"
    /\ detMeta = None
    /\ detOutput = None
    /\ detBoxes = <<>>

FpIdle ==
    /\ env = [useSquareCrop |-> TRUE, faceExpandRatio |-> R(10, 100)]
    /\ fpPc = "idle"
    /\ fpMeta = None
    /\ fpBoxes = <<>>
    /\ fpBest = None
    /\ fpBox = None
    /\ fpError = None
    /\ fpTrace = <<>>

ValIdle ==
    /\ valPc = "idle"
    /\ valImpl = "none"
    /\ valInput = None
    /\ valResult = None

EmbIdle ==
    /\ embPc = "idle"
    /\ embImpl = "none"
    /\ embRaw = <<>>
    /\ embFlipped = None
    /\ embResult = None

CmpIdle ==
    /\ cmpPc = "idle"
    /\ cmpImpl = "none"
    /\ cmpA = <<>>
    /\ cmpB = <<>>
    /\ cmpEnv = None
    /\ cmpResult = None

BoxIdle ==
    /\ boxPc = "idle"
    /\ boxOp = "none"
    /\ boxArg = None
    /\ boxResult = None

RqIdle ==
    /\ rqPc = "idle"
    /\ rqReq = None
    /\ rqCfg = [useTTAFlip |-> TRUE]
    /\ rqStored = None
    /\ rqMeta = None
    /\ rqOutput = None
    /\ rqBoxes = <<>>
    /\ rqBox = None
    /\ rqEmbedding = None
    /\ rqResult = None
    /\ rqError = None
    /\ rqTrace = <<>>
    /\ rqCalls = [detector |-> 0, recognizer |-> 0]
    /\ rqResponses = <<>>

DecIdle ==
    /\ decPc = "idle"
    /\ decImpl = "none"
    /\ decArgs = None
    /\ decPushed = <<>>
    /\ decDetections = <<>>

SelIdle ==
    /\ selPc = "idle"
    /\ selImpl = "none"
    /\ selArgs = None
    /\ selBest = None
    /\ selBox = None
    /\ selError = None

TtaIdle ==
    /\ ttaPc = "idle"
    /\ ttaCfg = None
    /\ ttaInput = None
    /\ ttaCalls = <<>>
    /\ ttaOutputs = <<>>
    /\ ttaEmbedding = None

LbIdle ==
    /\ lbPc = "idle"
    /\ lbImpl = "none"
    /\ lbMeta = None
    /\ lbTransform = None

----------------------------------------------------------------------------
(* Specification SpecNMS: _applyNMS on bounded lists of candidates *)

MaxBoxes == 3
GridDen == 4

\* candidate boxes on a grid of GridDen cells per unit
NmsCandidateBoxes ==
    { <<0, 0, 2, 2>>, <<1, 0, 2, 2>>, <<1, 1, 2, 2>>, <<0, 0, 4, 4>> }
NmsCandidateScores == { R(1, 2), R(9, 10) }
NmsCandidates ==
    { Box(R(g[1], GridDen), R(g[2], GridDen), R(g[3], GridDen), R(g[4], GridDen), s) :
        g \in NmsCandidateBoxes, s \in NmsCandidateScores }
NmsThresholds == { RZero, R(3, 10), R(1, 2), ROne }

SeqsUpTo(S, n) == UNION { [1..k -> S] : k \in 0..n }

InitNMS ==
    /\ nmsBoxes \in SeqsUpTo(NmsCandidates, MaxBoxes)
    /\ nmsThreshold \in NmsThresholds
    /\ nmsKept = <<>>
    /\ nmsPc = "call"
    /\ DetIdle
    /\ FpIdle
    /\ ValIdle
    /\ EmbIdle
    /\ CmpIdle
    /\ BoxIdle
    /\ RqIdle
    /\ DecIdle
    /\ SelIdle
    /\ TtaIdle
    /\ LbIdle

CallNMS ==
    /\ nmsPc = "call"
    /\ nmsKept' = applyNMS(nmsBoxes, nmsThreshold)
    /\ nmsPc' = "done"
    /\ UNCHANGED <<nmsBoxes, nmsThreshold>>
    /\ UNCHANGED exceptNms

NextNMS == CallNMS

SpecNMS == InitNMS /\ [][NextNMS]_vars

\* C1: every pair of distinct boxes (distinct positions) of the list
\* returned by NMS has IoU <= threshold.
C1_NmsPairwiseIoU ==
    nmsPc = "done" =>
        \A i, j \in 1..Len(nmsKept) :
            i # j => RLe(calculateIOU(nmsKept[i], nmsKept[j]), nmsThreshold)

\* a call that received overlapping candidates and suppressed one of them
C1_Witness ==
    /\ nmsPc = "done"
    /\ Len(nmsKept) >= 2
    /\ Len(nmsKept) < Len(nmsBoxes)

\* candidate i of the input comes before candidate j in the processing
\* order: by decreasing score, equal scores in the order of the input
Precedes(i, j) ==
    \/ RLt(nmsBoxes[j].score, nmsBoxes[i].score)
    \/ (nmsBoxes[i].score = nmsBoxes[j].score /\ i < j)

Overlap(a, b) == RLt(nmsThreshold, calculateIOU(a, b))

\* kept is what the greedy pass over the processing order keeps: its boxes
\* are candidates f[1], f[2], ... of the input in processing order, no two
\* of them overlap above the threshold, and every other candidate overlaps
\* a kept box that comes before it
GreedyInOrder ==
    \E f \in [1..Len(nmsKept) -> 1..Len(nmsBoxes)] :
        /\ \A i \in 1..Len(nmsKept) : nmsBoxes[f[i]] = nmsKept[i]
        /\ \A i, j \in 1..Len(nmsKept) :
              i < j => (Precedes(f[i], f[j]) /\ ~Overlap(nmsKept[i], nmsKept[j]))
        /\ \A k \in 1..Len(nmsBoxes) :
              (\A i \in 1..Len(nmsKept) : f[i] # k) =>
                  \E i \in 1..Len(nmsKept) :
                      Precedes(f[i], k) /\ Overlap(nmsKept[i], nmsBoxes[k])

SortedByScore ==
    \A i, j \in 1..Len(nmsKept) :
        i < j => RLe(nmsKept[j].score, nmsKept[i].score)

\* C24: NMS processes the candidates by decreasing score, equal scores in
\* the order of the input: the returned list is sorted by non-increasing
\* score and is the one list the greedy pass in that order gives (so equal
\* inputs give equal outputs, and of two overlapping candidates of equal
\* score the earlier one is kept); the input list is left as it was.
C24_StableDeterministicNMS ==
    /\ [](nmsPc = "done" => (SortedByScore /\ GreedyInOrder))
    /\ [][nmsBoxes' = nmsBoxes]_vars

\* two different candidates of equal score overlapped above the threshold:
\* the earlier one was kept and the later one was not
C24_Witness ==
    /\ nmsPc = "done"
    /\ \E i, j \in 1..Len(nmsBoxes) :
          /\ i < j
          /\ nmsBoxes[i].score = nmsBoxes[j].score
          /\ nmsBoxes[i] # nmsBoxes[j]
          /\ Overlap(nmsBoxes[i], nmsBoxes[j])
          /\ \E k \in 1..Len(nmsKept) : nmsKept[k] = nmsBoxes[i]
          /\ \A k \in 1..Len(nmsKept) : nmsKept[k] # nmsBoxes[j]

----------------------------------------------------------------------------
(* Specification SpecDetect: calls of detectFaces (both implementations)   *)
(* and of the anchor generators, on detector outputs of both formats       *)

ImageMetas ==
    { [width |-> 128, height |-> 128], [width |-> 1000, height |-> 1000],
      [width |-> 480, height |-> 640] }

\* direct format: quads in letterbox coordinates
QuadCentre == <<R(1, 4), R(1, 4), R(3, 4), R(3, 4)>>
QuadShifted == <<R(5, 16), R(1, 4), R(13, 16), R(3, 4)>>
QuadCorner == <<R(1, 2), R(1, 2), R(7, 8), R(7, 8)>>
QuadTiny == <<R(40, 100), R(40, 100), R(41, 100), R(41, 100)>>

NoTensors ==
    [boxes |-> None, scores |-> None, regressors |-> None, classificators |-> None]

DirectOutput(boxData, scoreData) ==
    [NoTensors EXCEPT !.boxes = Some(boxData), !.scores = Some(scoreData)]

DirectOutputs ==
    { DirectOutput(QuadCentre, <<R(9, 10)>>),
      DirectOutput(QuadCentre \o QuadShifted, <<R(9, 10), R(8, 10)>>),
      DirectOutput(QuadShifted \o QuadCentre, <<R(7, 10), R(9, 10)>>),
      DirectOutput(QuadCentre \o QuadCorner, <<R(6, 10)>>),
      DirectOutput(QuadTiny, <<R(9, 10)>>),
      DirectOutput(<<>>, <<>>) }

\* anchor format: a hot anchor is <<index, logits, <<dx, dy, dw, dh>>>>
NumAnchors == Len(ConfigAnchors)

HotRegressors(hots) ==
    [k \in UNION { {h[1] * regStride + j : j \in 0..3} : h \in hots } |->
        LET h == CHOOSE g \in hots : k \div regStride = g[1]
        IN  h[3][(k % regStride) + 1]]

HotClassificators(hots, clsStride) ==
    [k \in UNION { {h[1] * clsStride + j : j \in 0..(clsStride - 1)} : h \in hots } |->
        LET h == CHOOSE g \in hots : k \div clsStride = g[1]
        IN  h[2][(k % clsStride) + 1]]

AnchorOutput(hots, clsStride, regLen) ==
    [NoTensors EXCEPT
        !.regressors = Some(Arr(regLen, HotRegressors(hots), <<0>>)),
        !.classificators = Some(Arr(NumAnchors * clsStride,
                                    HotClassificators(hots, clsStride),
                                    IF clsStride = 1 THEN <<-3>>
                                    ELSE <<0, -3>>))]

HotA == <<272, <<2, 2>>, <<-4, -4, 64, 64>>>>
HotB == <<273, <<1, 1>>, <<4, -4, 64, -64>>>>
HotC == <<728, <<0, 3>>, <<-8, -8, 40, 48>>>>
HotD == <<895, <<-1, 0>>, <<0, 0, 2, 2>>>>

AnchorOutputs ==
    { AnchorOutput({HotA, HotB}, 1, NumAnchors * regStride),
      AnchorOutput({HotA, HotC}, 2, NumAnchors * regStride),
      AnchorOutput({HotC, HotD}, 1, NumAnchors * regStride),
      AnchorOutput({HotA, HotC}, 1, 272 * regStride + 3) }

OtherOutputs ==
    { NoTensors, [NoTensors EXCEPT !.boxes = Some(QuadCentre)] }

DetectorOutputs == DirectOutputs \cup AnchorOutputs \cup OtherOutputs

InitDetect ==
    /\ DetIdle
    /\ NmsIdle
    /\ FpIdle
    /\ ValIdle
    /\ EmbIdle
    /\ CmpIdle
    /\ BoxIdle
    /\ RqIdle
    /\ DecIdle
    /\ SelIdle
    /\ TtaIdle
    /\ LbIdle

\* FaceDetectionService._generateAnchors(): the cached sequence, or a new
\* one that is cached
MaxRuns == 2

\* a test of the cache that never finds it
CacheHit_Never(cache) == FALSE

\* if (this.anchors) return this.anchors
CacheHit(cache) == IsSome(cache)

ServiceAnchors == IF CacheHit(anchors) THEN Get(anchors) ELSE ConfigAnchors

ServiceGenerateAnchors ==
    /\ anchors' = Some(ServiceAnchors)
    /\ genLast' = Some(ServiceAnchors)
    /\ genPrev' = genLast
    /\ genRuns' = IF CacheHit(anchors) THEN genRuns ELSE IMin(genRuns + 1, MaxRuns)
    /\ UNCHANGED <<detImpl, detMeta, detOutput, detBoxes>>
    /\ UNCHANGED exceptDet

\* modelloader.js generateAnchors(TARGET)
LegacyGenerateAnchors ==
    /\ genLast' = Some(ConfigAnchors)
    /\ genPrev' = genLast
    /\ UNCHANGED <<anchors, genRuns, detImpl, detMeta, detOutput, detBoxes>>
    /\ UNCHANGED exceptDet

ServiceDetectFaces ==
    /\ \E meta \in ImageMetas, output \in DetectorOutputs :
        /\ detImpl' = "service"
        /\ detMeta' = Some(meta)
        /\ detOutput' = Some(output)
        /\ detBoxes' = ServiceDetectBoxes(output, meta, ServiceAnchors)
        /\ IF OutputFormat(output) = "anchor"
           THEN /\ anchors' = Some(ServiceAnchors)
                /\ genLast' = Some(ServiceAnchors)
                /\ genPrev' = genLast
                /\ genRuns' = IF CacheHit(anchors) THEN genRuns
                              ELSE IMin(genRuns + 1, MaxRuns)
           ELSE UNCHANGED <<anchors, genLast, genPrev, genRuns>>
    /\ UNCHANGED exceptDet

LegacyDetectFaces ==
    /\ \E meta \in ImageMetas, output \in DetectorOutputs :
        /\ detImpl' = "legacy"
        /\ detMeta' = Some(meta)
        /\ detOutput' = Some(output)
        /\ detBoxes' = LegacyDetectBoxes(output, meta)
        /\ IF OutputFormat(output) = "anchor"
           THEN /\ genLast' = Some(ConfigAnchors)
                /\ genPrev' = genLast
           ELSE UNCHANGED <<genLast, genPrev>>
    /\ UNCHANGED <<anchors, genRuns>>
    /\ UNCHANGED exceptDet

NextDetect ==
    \/ ServiceGenerateAnchors
    \/ LegacyGenerateAnchors
    \/ ServiceDetectFaces
    \/ LegacyDetectFaces

SpecDetect == InitDetect /\ [][NextDetect]_vars

\* C2 (as stated): whichever implementation ran and whichever format the
\* detector produced, every pair of boxes returned by detectFaces has
\* IoU <= nmsThreshold.
C2_DetectFacesPairwiseIoU ==
    detImpl # "none" =>
        \A i, j \in 1..Len(detBoxes) :
            i # j => RLe(calculateIOU(detBoxes[i], detBoxes[j]), nmsThresholdCfg)

\* the anchor the claim places at 0-based position i of the sequence
C3_Expected(i) ==
    LET first == i < 16 * 16 * 2
        j == IF first THEN i ELSE i - 16 * 16 * 2
        size == IF first THEN 16 ELSE 8
        stride == IF first THEN 8 ELSE 16
        perCell == IF first THEN 2 ELSE 6
        y == j \div (size * perCell)
        x == (j % (size * perCell)) \div perCell
        halfCell == R(1, 2)
    IN  [ cx |-> RDiv(RMul(RAdd(RInt(x), halfCell), RInt(stride)), RInt(targetSize)),
          cy |-> RDiv(RMul(RAdd(RInt(y), halfCell), RInt(stride)), RInt(targetSize)),
          w  |-> R(stride, targetSize),
          h  |-> R(stride, targetSize) ]

\* C3: a generation returns exactly 896 anchors, ordered by feature map,
\* row y, column x, slot a, each with cx = (x+0.5)*stride/targetSize,
\* cy = (y+0.5)*stride/targetSize, w = h = stride/targetSize; and two
\* generations return identical sequences.
C3_AnchorGeneration ==
    IsSome(genLast) =>
        /\ Len(Get(genLast)) = 896
        /\ \A i \in 0..895 : Get(genLast)[i + 1] = C3_Expected(i)
        /\ IsSome(genPrev) => genPrev = genLast

\* two generations have happened
C3_Witness ==
    /\ IsSome(genLast)
    /\ IsSome(genPrev)
    /\ Len(Get(genLast)) = 896

\* C25: the anchors of the service are computed once and cached: whatever
\* the order of the calls, the loops run at most once, the cache holds 896
\* anchors from then on and is never changed after it is set, and a call
\* that finds the cache set returns the cached sequence.
C25_AnchorsComputedOnce ==
    /\ [](genRuns <= 1)
    /\ [](IsSome(anchors) <=> genRuns = 1)
    /\ [](IsSome(anchors) => Len(Get(anchors)) = 896)
    /\ [][IsSome(anchors) => anchors' = anchors]_vars
    /\ [][(IsSome(anchors) /\ genLast' # genLast) => genLast' = anchors]_vars

\* the cache is set, the loops have run once, and the last two generations
\* returned the cached sequence
C25_Witness ==
    /\ genRuns = 1
    /\ IsSome(anchors)
    /\ genPrev = anchors
    /\ genLast = anchors
    /\ detImpl = "service"

----------------------------------------------------------------------------
(* Specification SpecFace: one request through detectAndValidateFace and   *)
(* the stage that follows it in the route                                  *)

Environments ==
    [useSquareCrop : BOOLEAN, faceExpandRatio : {R(10, 100), R(30, 100)}]

FaceMetas ==
    { [width |-> 128, height |-> 128], [width |-> 100, height |-> 100],
      [width |-> 160, height |-> 120] }

QuadSmall == <<R(45, 100), R(45, 100), R(55, 100), R(55, 100)>>
QuadEdge == <<RZero, RZero, R(4, 10), R(4, 10)>>
QuadWide == <<R(2, 10), R(4, 10), R(8, 10), R(6, 10)>>
QuadBig == <<R(1, 10), R(1, 10), R(9, 10), R(9, 10)>>

FaceOutputs ==
    { DirectOutput(QuadCentre, <<R(9, 10)>>),
      DirectOutput(QuadCentre \o QuadCorner, <<R(6, 10), R(9, 10)>>),
      DirectOutput(QuadSmall \o QuadCentre, <<R(9, 10), R(7, 10)>>),
      DirectOutput(QuadSmall, <<R(9, 10)>>),
      DirectOutput(QuadTiny, <<R(9, 10)>>),
      DirectOutput(QuadEdge, <<R(9, 10)>>),
      DirectOutput(QuadWide, <<R(8, 10)>>),
      DirectOutput(QuadBig, <<R(9, 10)>>),
      DirectOutput(QuadEdge \o QuadWide, <<R(9, 10), R(8, 10)>>),
      DirectOutput(<<>>, <<>>),
      NoTensors,
      AnchorOutput({HotA, HotC}, 1, NumAnchors * regStride) }

\* the selector scores survivors with squares of the image size: the large
\* image comes only with a face that the filters reject
FaceInputs ==
    (FaceMetas \X FaceOutputs)
    \cup { <<[width |-> 1000, height |-> 1000], DirectOutput(QuadTiny, <<R(9, 10)>>)>> }

InitFace ==
    /\ env \in Environments
    /\ fpPc = "start"
    /\ fpMeta = None
    /\ fpBoxes = <<>>
    /\ fpBest = None
    /\ fpBox = None
    /\ fpError = None
    /\ fpTrace = <<>>
    /\ NmsIdle
    /\ DetIdle
    /\ ValIdle
    /\ EmbIdle
    /\ CmpIdle
    /\ BoxIdle
    /\ RqIdle
    /\ DecIdle
    /\ SelIdle
    /\ TtaIdle
    /\ LbIdle

\* const { boxes, metadata } = await detectionService.detectFaces(buffer)
FpDetectFaces ==
    /\ fpPc = "start"
    /\ \E input \in FaceInputs :
        /\ fpMeta' = Some(input[1])
        /\ fpBoxes' = ServiceDetectBoxes(input[2], input[1], ConfigAnchors)
    /\ fpPc' = "detected"
    /\ fpTrace' = Append(fpTrace, "detectFaces")
    /\ UNCHANGED <<env, fpBest, fpBox, fpError>>
    /\ UNCHANGED exceptFp

\* the rest of detectAndValidateFace: it throws, or returns the processed box
FpValidateFace ==
    /\ fpPc = "detected"
    /\ \E v \in {ValidateFace(fpBoxes, Get(fpMeta).width, Get(fpMeta).height, env)} :
           /\ fpBest' = v.best
           /\ fpBox' = v.box
           /\ fpError' = v.error
           /\ fpPc' = IF IsSome(v.error) THEN "failed" ELSE "returned"
           /\ fpTrace' = fpTrace
                         \o (IF fpBoxes = <<>> THEN <<>> ELSE <<"selectBestFace">>)
                         \o (IF IsSome(v.best) THEN <<"processBoundingBox">> ELSE <<>>)
    /\ UNCHANGED <<env, fpMeta, fpBoxes>>
    /\ UNCHANGED exceptFp

\* the route's next call with the returned box: encodeface (/encode,
\* /compare) or extractFaceCrop (/cropface)
FpNextStage ==
    /\ fpPc = "returned"
    /\ \E stage \in {"encodeface", "extractFaceCrop"} :
        fpTrace' = Append(fpTrace, stage)
    /\ fpPc' = "next"
    /\ UNCHANGED <<env, fpMeta, fpBoxes, fpBest, fpBox, fpError>>
    /\ UNCHANGED exceptFp

\* asyncHandler passes the thrown error to errorHandler, which responds
FpErrorHandler ==
    /\ fpPc = "failed"
    /\ fpPc' = "responded"
    /\ fpTrace' = Append(fpTrace, "errorHandler")
    /\ UNCHANGED <<env, fpMeta, fpBoxes, fpBest, fpBox, fpError>>
    /\ UNCHANGED exceptFp

NextFace ==
    \/ FpDetectFaces
    \/ FpValidateFace
    \/ FpNextStage
    \/ FpErrorHandler

SpecFace == InitFace /\ [][NextFace]_vars

\* no box of the detection result passes the selector's filters
NoSurvivor ==
    LET meta == Get(fpMeta)
    IN  \A k \in 1..Len(fpBoxes) :
            ~PassesFilters(ToPixels(fpBoxes[k], meta.width, meta.height),
                           meta.width, meta.height)

InTrace(stage) == \E k \in 1..Len(fpTrace) : fpTrace[k] = stage

----------------------------------------------------------------------------
(* Specification SpecValidate: validateEmbedding and the legacy parsing on *)
(* embedding texts                                                         *)

BaseTokens == {Literal(R(1, 2)), Literal(R(-1, 4))}

OddTokens ==
    { Token("ident", 1, RZero),        \* NaN
      Token("overflow", 1, RZero),     \* 1e999
      Token("overflow", -1, RZero),    \* -1e999
      Token("null", 1, RZero),
      Token("string", 1, RZero),
      Literal(RInt(3)) }

TextLengths == {0, 1, 511, 512, 513}
OddPositions == {1, 256, 511, 512}

\* "[base, ..., base]" of n tokens with token odd at position pos
ArrayText(n, base, pos, odd) ==
    [shape |-> "array", tokens |-> [i \in 1..n |-> IF i = pos THEN odd ELSE base]]

EmbeddingTexts ==
    { ArrayText(n, base, pos, odd) :
        n \in TextLengths, base \in BaseTokens, pos \in OddPositions, odd \in OddTokens }
    \cup { [shape |-> "malformed", tokens |-> <<>>],
           [shape |-> "object", tokens |-> <<>>],
           [shape |-> "scalar", tokens |-> <<Literal(R(1, 2))>>],
           [shape |-> "scalar", tokens |-> <<Token("null", 1, RZero)>>] }

InitValidate ==
    /\ ValIdle
    /\ EmbIdle
    /\ CmpIdle
    /\ BoxIdle
    /\ NmsIdle
    /\ DetIdle
    /\ FpIdle
    /\ RqIdle
    /\ DecIdle
    /\ SelIdle
    /\ TtaIdle
    /\ LbIdle

ServiceValidateEmbedding ==
    /\ valPc = "idle"
    /\ \E text \in EmbeddingTexts :
        /\ valInput' = Some(text)
        /\ valResult' = Some(validateEmbedding(text))
    /\ valImpl' = "service"
    /\ valPc' = "done"
    /\ UNCHANGED exceptVal

LegacyCompareParse ==
    /\ valPc = "idle"
    /\ \E text \in EmbeddingTexts :
        /\ valInput' = Some(text)
        /\ valResult' = Some(LegacyParseEmbedding(text))
    /\ valImpl' = "legacy"
    /\ valPc' = "done"
    /\ UNCHANGED exceptVal

NextValidate ==
    \/ ServiceValidateEmbedding
    \/ LegacyCompareParse

SpecValidate == InitValidate /\ [][NextValidate]_vars

\* the input is the text of an array, and what it holds
InputIsArray == Get(valInput).shape = "array"
InputLen == Len(Get(valInput).tokens)
InputHas(kind) == \E i \in 1..InputLen : Get(valInput).tokens[i].kind = kind
InputAllFinite == \A i \in 1..InputLen : Get(valInput).tokens[i].kind = "literal"

ErrInvalidEmbeddingFormat ==
    AppError(<<ErrorMessages.INVALID_EMBEDDING_FORMAT>>, "ValidationError", 400)

\* the result is the array of the input's numbers, in the input's order
ResultIsInput ==
    /\ Get(valResult).ok
    /\ Len(Get(valResult).value) = InputLen
    /\ \A i \in 1..InputLen :
        /\ Get(valResult).value[i].kind = "number"
        /\ Get(valResult).value[i].v = Get(valInput).tokens[i].v

C6_AcceptedAreFinite ==
    (valPc = "done" /\ Get(valResult).ok) =>
        /\ Len(Get(valResult).value) = 512
        /\ \A i \in 1..512 : Get(valResult).value[i].kind = "number"

----------------------------------------------------------------------------
(* Specification SpecEmbed: encodeface / runArcFace on recognizer outputs  *)

\* the leading elements of the recognizer outputs; the others are 0.  At
\* MantBits bits the normalisation of these, and of the average of any two
\* of them that is not 0, is accurate to 1e-4.
RawHeads ==
    { <<3, 4>>, <<-3, -4>>, <<0>>, <<1, 2, 3>>, <<6, 8>>, <<0, 5>>,
      <<1, 2, 2>>, <<2, 1, 2>> }

\* outputs of 512 values one of which is NaN or Infinity
NonFiniteOutputs ==
    { [PaddedVec(<<3, 4>>, embeddingDimension) EXCEPT ![2] = x] :
        x \in {FNaN, FInfinity} }

RawOutputs ==
    { PaddedVec(h, embeddingDimension) : h \in RawHeads }
    \cup { Vec(<<3, 4>>) } \cup NonFiniteOutputs

InitEmbed ==
    /\ EmbIdle
    /\ NmsIdle
    /\ DetIdle
    /\ FpIdle
    /\ ValIdle
    /\ CmpIdle
    /\ BoxIdle
    /\ RqIdle
    /\ DecIdle
    /\ SelIdle
    /\ TtaIdle
    /\ LbIdle

ServiceEncodeFace ==
    /\ embPc = "idle"
    /\ \E raw \in RawOutputs, flipped \in {None} \cup {Some(f) : f \in RawOutputs} :
        /\ embRaw' = raw
        /\ embFlipped' = flipped
        /\ embResult' = Some(encodeface(raw, flipped))
    /\ embImpl' = "service"
    /\ embPc' = "done"
    /\ UNCHANGED exceptEmb

LegacyRunArcFace ==
    /\ embPc = "idle"
    /\ \E raw \in RawOutputs, flipped \in {None} \cup {Some(f) : f \in RawOutputs} :
        /\ embRaw' = raw
        /\ embFlipped' = flipped
        /\ embResult' = Some(LegacyEncode(raw, flipped))
    /\ embImpl' = "legacy"
    /\ embPc' = "done"
    /\ UNCHANGED exceptEmb

NextEmbed ==
    \/ ServiceEncodeFace
    \/ LegacyRunArcFace

SpecEmbed == InitEmbed /\ [][NextEmbed]_vars

\* the indices of the nonzero elements of a vector
Support(v) == {i \in 1..Len(v) : v[i][1] # 0}

\* the sum of the squares of the elements at the indices of s, exactly
RECURSIVE SquaredNorm(_, _)
SquaredNorm(v, s) ==
    IF s = {} THEN RZero
    ELSE CHOOSE r \in
           { RAdd(RMul(FValue(v[i]), FValue(v[i])), rest) :
               i \in {CHOOSE j \in s : TRUE},
               rest \in {SquaredNorm(v, s \ {CHOOSE j \in s : TRUE})} } : TRUE

\* the L2 norm of v is within 1e-4 of 1.0
UnitNorm(v) ==
    \E n2 \in {SquaredNorm(v, Support(v))} :
        /\ RLe(R(99980001, 100000000), n2)
        /\ RLe(n2, R(100020001, 100000000))

\* the recognizer returned 512 finite values in every run
RawIsValid ==
    /\ Len(embRaw) = 512
    /\ AllFinite(embRaw)
    /\ IsSome(embFlipped) => (Len(Get(embFlipped)) = 512 /\ AllFinite(Get(embFlipped)))

\* C7 (as stated): for every raw recognizer output of 512 finite values, with
\* or without flip averaging, the embedding returned by generateEmbedding /
\* runArcFace has L2 norm within 1e-4 of 1.0.
C7_UnitNorm ==
    (embPc = "done" /\ RawIsValid) =>
        /\ IsSome(Get(embResult).embedding)
        /\ UnitNorm(Get(Get(embResult).embedding))

\* the vector generateEmbedding / runArcFace produced in this call
Generated == generateEmbedding(embRaw, embFlipped)

\* C23: whenever the generated vector has a length other than 512 or holds
\* a value that is not finite (NaN or Infinity), the encode path fails with
\* an error and returns no embedding.
C23_InvalidEmbeddingRejected ==
    (embPc = "done" /\ (Len(Generated) # 512 \/ ~AllFinite(Generated))) =>
        /\ ~IsSome(Get(embResult).embedding)
        /\ IsSome(Get(embResult).error)

\* the part of it that the code keeps: a vector of another length is refused
WrongLengthRejected ==
    (embPc = "done" /\ Len(Generated) # 512) =>
        /\ ~IsSome(Get(embResult).embedding)
        /\ IsSome(Get(embResult).error)

----------------------------------------------------------------------------
(* Specification SpecCompare: compareEmbeddings and the legacy comparison  *)

ShortHeads ==
    { <<>>, <<1, 1>>, <<-3, -3>>, <<1, 0>>, <<0, 1>>, <<1, 2>>, <<-2, 1>>,
      <<0, 0>>, <<1, 2, 3>>, <<-3, 0, 1>>, <<20, 98>> }

LongHeads == { <<1>>, <<0, 1>>, <<1, 1>>, <<-3, -3>>, <<1, 2, 3>>, <<0>>, <<20, 98>> }

ShortVectors == { Vec(h) : h \in ShortHeads }
LongVectors == { PaddedVec(h, embeddingDimension) : h \in LongHeads }

\* SIM_THRESHOLD: unset, or a decimal
SimThresholds == { None, Some(<<65, 100>>), Some(<<1, 1>>), Some(<<0, 1>>), Some(<<2, 10>>) }

InitCompare ==
    /\ CmpIdle
    /\ BoxIdle
    /\ NmsIdle
    /\ DetIdle
    /\ FpIdle
    /\ ValIdle
    /\ EmbIdle
    /\ RqIdle
    /\ DecIdle
    /\ SelIdle
    /\ TtaIdle
    /\ LbIdle

ServiceCompareEmbeddings ==
    /\ cmpPc = "idle"
    /\ \E a \in ShortVectors \cup LongVectors, b \in ShortVectors \cup LongVectors,
          t \in SimThresholds :
        /\ cmpA' = a
        /\ cmpB' = b
        /\ cmpEnv' = t
        /\ cmpResult' = Some(compareEmbeddings(a, b, t))
    /\ cmpImpl' = "service"
    /\ cmpPc' = "done"
    /\ UNCHANGED exceptCmp

LegacyCompare ==
    /\ cmpPc = "idle"
    /\ \E a \in LongVectors, b \in LongVectors, t \in SimThresholds :
        /\ cmpA' = a
        /\ cmpB' = b
        /\ cmpEnv' = t
        /\ cmpResult' = Some(LegacyCompareEmbeddings(a, b, t))
    /\ cmpImpl' = "legacy"
    /\ cmpPc' = "done"
    /\ UNCHANGED exceptCmp

NextCompare ==
    \/ ServiceCompareEmbeddings
    \/ LegacyCompare

SpecCompare == InitCompare /\ [][NextCompare]_vars

\* a comparison of two vectors of equal length has returned a similarity
Compared ==
    /\ cmpPc = "done"
    /\ Len(cmpA) = Len(cmpB)
    /\ IsSome(Get(cmpResult).similarity)

IsNonzero(v) == Support(v) # {}

\* the dot product of the two vectors, exactly
RECURSIVE ExactDot(_, _, _)
ExactDot(a, b, s) ==
    IF s = {} THEN RZero
    ELSE CHOOSE r \in
           { RAdd(RMul(FValue(a[i]), FValue(b[i])), rest) :
               i \in {CHOOSE j \in s : TRUE},
               rest \in {ExactDot(a, b, s \ {CHOOSE j \in s : TRUE})} } : TRUE

\* C8 (as stated): for any two equal-length finite vectors a and b,
\* cosineSimilarity(a, b) equals cosineSimilarity(b, a) and lies in [-1, 1].
C8_SymmetricAndBounded ==
    Compared =>
        /\ Get(cmpResult).similarity = cosineSimilarity(cmpB, cmpA)
        /\ FGe(Get(Get(cmpResult).similarity), F(-1))
        /\ FGe(F(1), Get(Get(cmpResult).similarity))

\* C9 (as stated): for any nonzero vector a, comparing a with itself yields
\* similarity 1.0 and isMatch = true for every threshold <= 1.0.  (The
\* four-decimal report is left out: a rounding error that MantBits bits show
\* in the fourth decimal is invisible there at 53 bits.)
C9_SelfSimilarity ==
    (Compared /\ cmpA = cmpB /\ IsNonzero(cmpA)) =>
        /\ Get(Get(cmpResult).similarity) = F(1)
        /\ FGe(F(1), similarityThreshold(cmpEnv)) => Get(Get(cmpResult).isMatch)

\* C10: two equal-length nonzero vectors whose dot product is 0 yield the
\* reported similarity 0.0000 and isMatch = false at the default threshold
\* 0.45.
C10_Orthogonal ==
    ( /\ Compared
      /\ IsNonzero(cmpA)
      /\ IsNonzero(cmpB)
      /\ ExactDot(cmpA, cmpB, Support(cmpA)) = RZero
      /\ cmpEnv = None ) =>
        /\ Get(Get(cmpResult).reported) = 0
        /\ Get(Get(cmpResult).isMatch) = FALSE

\* the unit vectors e1 and e2 of 512 elements have been compared at the
\* default threshold
C10_Witness ==
    /\ cmpPc = "done"
    /\ cmpA = PaddedVec(<<1>>, 512)
    /\ cmpB = PaddedVec(<<0, 1>>, 512)
    /\ cmpEnv = None
    /\ Get(cmpResult).reported = Some(0)
    /\ Get(cmpResult).isMatch = Some(FALSE)

\* C11 (as stated): cosineSimilarity returns the null result whenever the two
\* vectors differ in length or either vector is empty (both empty included),
\* and returns 0 when the lengths match and either vector has norm exactly 0.
C11_NullOrZero ==
    cmpPc = "done" =>
        /\ (Len(cmpA) # Len(cmpB) \/ Len(cmpA) = 0 \/ Len(cmpB) = 0) =>
               Get(cmpResult).similarity = None
        /\ ( /\ Len(cmpA) = Len(cmpB)
             /\ Len(cmpA) > 0
             /\ (~IsNonzero(cmpA) \/ ~IsNonzero(cmpB)) ) =>
               Get(cmpResult).similarity = Some(FZero)

\* the similarity of the response: parseFloat(similarity.toFixed(4))
ReportedSimilarity == FRat(Get(Get(cmpResult).reported), 10000)

MatchAgreesWithComputed ==
    Compared =>
        (Get(Get(cmpResult).isMatch) <=>
            FGe(Get(Get(cmpResult).similarity), similarityThreshold(cmpEnv)))

----------------------------------------------------------------------------
(* Specification SpecBox: the bounding-box geometry of                     *)
(* FaceProcessingService and of the legacy server on pixel boxes           *)

BoxImages ==
    { [width |-> 100, height |-> 100], [width |-> 160, height |-> 120],
      [width |-> 1000, height |-> 1000] }

\* the pixel boxes that lie inside the image
BoxesIn(image) ==
    { b \in [ x : {0, 3, image.width \div 2},
              y : {0, image.height \div 2},
              width : {10, 19, 25, image.width \div 2, image.width - 3, image.width},
              height : {10, 20, 30, image.height \div 2, image.height} ] :
        b.x + b.width <= image.width /\ b.y + b.height <= image.height }

ExpandRatios == { RZero, R(1, 10), R(1, 5) }

\* FACE_EXPAND_RATIO and SQUARE_CROP
BoxConfigs == [ useSquareCrop : BOOLEAN, faceExpandRatio : ExpandRatios \cup {R(30, 100)} ]

BoxArgsOf(image) ==
    { [box |-> b, image |-> image, cfg |-> cfg] : b \in BoxesIn(image), cfg \in BoxConfigs }

BoxArgs == UNION { BoxArgsOf(image) : image \in BoxImages }

\* the arguments of the functions that take a ratio: it is at most 0.20
RatioArgs == { a \in BoxArgs : a.cfg.faceExpandRatio \in ExpandRatios /\ a.cfg.useSquareCrop }

\* the arguments of the functions that take no configuration
PlainArgs == { a \in RatioArgs : a.cfg.faceExpandRatio = RZero }

Returned(box) == [box |-> Some(box), error |-> None]

InitBox ==
    /\ BoxIdle
    /\ NmsIdle
    /\ DetIdle
    /\ FpIdle
    /\ ValIdle
    /\ EmbIdle
    /\ CmpIdle
    /\ RqIdle
    /\ DecIdle
    /\ SelIdle
    /\ TtaIdle
    /\ LbIdle

ExpandBoundingBox ==
    /\ boxPc = "idle"
    /\ \E a \in RatioArgs :
        /\ boxArg' = Some(a)
        /\ boxResult' = Some(Returned(expandBoundingBox(a.box, a.image.width,
                                  a.image.height, a.cfg.faceExpandRatio)))
    /\ boxOp' = "expandBoundingBox"
    /\ boxPc' = "done"
    /\ UNCHANGED exceptBox

ExpandFaceBox ==
    /\ boxPc = "idle"
    /\ \E a \in RatioArgs :
        /\ boxArg' = Some(a)
        /\ boxResult' = Some(Returned(expandFaceBox(a.box, a.image.width,
                                  a.image.height, a.cfg.faceExpandRatio)))
    /\ boxOp' = "expandFaceBox"
    /\ boxPc' = "done"
    /\ UNCHANGED exceptBox

MakeSquareBoundingBox ==
    /\ boxPc = "idle"
    /\ \E a \in PlainArgs :
        /\ boxArg' = Some(a)
        /\ boxResult' = Some(Returned(makeSquareBoundingBox(a.box, a.image.width,
                                  a.image.height)))
    /\ boxOp' = "makeSquareBoundingBox"
    /\ boxPc' = "done"
    /\ UNCHANGED exceptBox

EnsureSquareBox ==
    /\ boxPc = "idle"
    /\ \E a \in PlainArgs :
        /\ boxArg' = Some(a)
        /\ boxResult' = Some(Returned(ensureSquareBox(a.box, a.image.width,
                                  a.image.height)))
    /\ boxOp' = "ensureSquareBox"
    /\ boxPc' = "done"
    /\ UNCHANGED exceptBox

ProcessBoundingBox ==
    /\ boxPc = "idle"
    /\ \E a \in BoxArgs :
        /\ boxArg' = Some(a)
        /\ boxResult' = Some(processBoundingBox(a.box, a.image.width, a.image.height,
                                  a.cfg))
    /\ boxOp' = "processBoundingBox"
    /\ boxPc' = "done"
    /\ UNCHANGED exceptBox

LegacyProcessBoundingBox ==
    /\ boxPc = "idle"
    /\ \E a \in BoxArgs :
        /\ boxArg' = Some(a)
        /\ boxResult' = Some(LegacyProcessBox(a.box, a.image.width, a.image.height,
                                  a.cfg))
    /\ boxOp' = "legacyProcessBox"
    /\ boxPc' = "done"
    /\ UNCHANGED exceptBox

\* the boxes of the network input given to the letterbox inverse mapping:
\* centre, width and height as fractions of the input
LetterboxArgs ==
    { [bx |-> bx, by |-> by, bw |-> bw, bh |-> bh, meta |-> meta] :
        bx \in {R(1, 4), R(1, 2), R(9, 10)}, by \in {R(1, 2), R(3, 4)},
        bw \in {RZero, R(1, 8), R(1, 2), ROne}, bh \in {R(1, 8), R(1, 2)},
        meta \in ImageMetas }

MapFromLetterbox ==
    /\ boxPc = "idle"
    /\ \E a \in LetterboxArgs :
        /\ boxArg' = Some(a)
        /\ boxResult' = Some(Returned(mapFunc(a.bx, a.by, a.bw, a.bh,
                                              prepareInput(a.meta), a.meta)))
    /\ boxOp' = "mapFromLetterbox"
    /\ boxPc' = "done"
    /\ UNCHANGED exceptBox

NextBox ==
    \/ MapFromLetterbox
    \/ ExpandBoundingBox
    \/ ExpandFaceBox
    \/ MakeSquareBoundingBox
    \/ EnsureSquareBox
    \/ ProcessBoundingBox
    \/ LegacyProcessBoundingBox

SpecBox == InitBox /\ [][NextBox]_vars

\* the function `op` has been called
BoxDone(op) == boxPc = "done" /\ boxOp = op

\* the box after expansion and optional squaring
BoxAfterGeometry ==
    ProcessedBox(Get(boxArg).box, Get(boxArg).image.width, Get(boxArg).image.height,
                 Get(boxArg).cfg)

\* C12 (as stated): bounding-box processing fails with the FaceTooSmall
\* condition whenever the box after expansion and optional squaring has width
\* or height below minPixelSize (20 px); a processed box is returned only when
\* both its width and its height are >= 20.
C12_FaceTooSmall ==
    (BoxDone("processBoundingBox") \/ BoxDone("legacyProcessBox")) =>
        /\ (BoxAfterGeometry.width < 20 \/ BoxAfterGeometry.height < 20) =>
               /\ Get(boxResult).box = None
               /\ Get(boxResult).error \in {Some(ErrFaceTooSmall), Some(LegacyErrFaceTooSmall)}
        /\ IsSome(Get(boxResult).box) =>
               /\ Get(Get(boxResult).box).width >= 20
               /\ Get(Get(boxResult).box).height >= 20

\* the box returned lies inside the image
ResultInsideImage ==
    /\ Get(Get(boxResult).box).x >= 0
    /\ Get(Get(boxResult).box).y >= 0
    /\ Get(Get(boxResult).box).x + Get(Get(boxResult).box).width
           <= Get(boxArg).image.width
    /\ Get(Get(boxResult).box).y + Get(Get(boxResult).box).height
           <= Get(boxArg).image.height

\* C13 (as stated): for any pixel box lying inside the image and any expand
\* ratio in [0, 0.20], the expanded box is clamped into the image: x >= 0,
\* y >= 0, x + width <= imageWidth and y + height <= imageHeight.
C13_ExpandedInsideImage ==
    (BoxDone("expandBoundingBox") \/ BoxDone("expandFaceBox")) => ResultInsideImage

\* round(max(width, height)) of the box given to the squaring step
InputSide == IMax(Get(boxArg).box.width, Get(boxArg).box.height)

Squared == BoxDone("makeSquareBoundingBox") \/ BoxDone("ensureSquareBox")

\* C14 (as stated): for any pixel box inside the image, the squaring step
\* returns a box with width == height == round(max(width, height)) that lies
\* fully inside the image; the side is never shrunk.
C14_AsStated ==
    Squared =>
        /\ Get(Get(boxResult).box).width = InputSide
        /\ Get(Get(boxResult).box).height = InputSide
        /\ ResultInsideImage

\* C14 (amended): for any pixel box inside the image, the squaring step
\* returns a box that lies fully inside the image, of width min(side,
\* imageWidth) and height min(side, imageHeight) with side = round(max(width,
\* height)): a square of that side whenever the side fits both dimensions of
\* the image (only the top-left corner is then clamped), and a box shrunk to
\* the image in the dimension the side exceeds.
C14_SquareInsideImage ==
    Squared =>
        /\ ResultInsideImage
        /\ Get(Get(boxResult).box).width = IMin(InputSide, Get(boxArg).image.width)
        /\ Get(Get(boxResult).box).height = IMin(InputSide, Get(boxArg).image.height)
        /\ (InputSide <= Get(boxArg).image.width /\ InputSide <= Get(boxArg).image.height) =>
               /\ Get(Get(boxResult).box).width = InputSide
               /\ Get(Get(boxResult).box).height = InputSide

\* a tall box at the left edge has been squared: its corner was clamped to
\* x = 0 and its side kept
C14_Witness ==
    /\ BoxDone("makeSquareBoundingBox")
    /\ Get(boxArg).box = [x |-> 0, y |-> 0, width |-> 10, height |-> 30]
    /\ Get(boxResult).box = Some([x |-> 0, y |-> 0, width |-> 30, height |-> 30])

\* C15 (as stated): the letterbox inverse mapping returns x, y, width and
\* height each in [0, 1], with width and height derived from the clamped
\* extents, so that x + width <= 1 and y + height <= 1 for every input box
\* and every transform.
C15_MappedInsideUnitSquare ==
    BoxDone("mapFromLetterbox") =>
        /\ \A v \in { Get(Get(boxResult).box).x, Get(Get(boxResult).box).y,
                      Get(Get(boxResult).box).width, Get(Get(boxResult).box).height } :
               RLe(RZero, v) /\ RLe(v, ROne)
        /\ RLe(RAdd(Get(Get(boxResult).box).x, Get(Get(boxResult).box).width), ROne)
        /\ RLe(RAdd(Get(Get(boxResult).box).y, Get(Get(boxResult).box).height), ROne)

----------------------------------------------------------------------------
(* routes/faceRoutes.js with middleware/uploadMiddleware.js and            *)
(* middleware/errorHandler.js: one request to POST /cropface, /encode or   *)
(* /compare.  The handler is upload.single('image') followed by            *)
(* asyncHandler(async (req, res) => ...): a chain of awaited calls whose   *)
(* rejection goes to next(err), that is, to errorHandler.                  *)

maxFileSize == 5 * 1024 * 1024

\* a thrown value: class "AppError", "MulterError" or "Error"; message is a
\* sequence of parts
Thrown(class, name, message, statusCode) ==
    [class |-> class, name |-> name, message |-> message, statusCode |-> statusCode]

ThrownAppError(e) == Thrown("AppError", e.type, e.message, e.statusCode)
ThrownError(message) == Thrown("Error", "Error", <<message>>, 500)

Response(status, success, type, error, payload) ==
    [status |-> status, success |-> success, type |-> type, error |-> error,
     payload |-> payload]

\* errorHandler answering a failed request as if it had succeeded
errorHandler_Success(err) ==
    Response(200, TRUE, "none", <<>>, "none")

\* errorHandler(err, req, res, next): the response it sends
errorHandler(err) ==
    IF err.class = "AppError"
    THEN Response(err.statusCode, FALSE, err.name, err.message, "none")
    ELSE IF err.name = "MulterError"
    THEN Response(400, FALSE, "UploadError", <<"File upload error: ">> \o err.message, "none")
    ELSE IF err.name = "ValidationError"
    THEN Response(400, FALSE, "ValidationError", err.message, "none")
    ELSE Response(500, FALSE, "InternalError", <<"Internal server error">>, "none")

\* upload.single('image'): fileFilter and limits.fileSize; the error passed
\* to next(), None when req.file is set (or no file was sent)
upload(file) ==
    IF ~IsSome(file) THEN None
    ELSE IF Get(file).mimetype # "image"
    THEN Some(ThrownError("Only image files are allowed"))
    ELSE IF Get(file).size > maxFileSize
    THEN Some(Thrown("MulterError", "MulterError", <<"File too large">>, 500))
    ELSE None

\* validateImageUpload(file): the error thrown, None when it returns true
validateImageUpload(file) ==
    IF ~IsSome(file)
    THEN Some(ThrownAppError(AppError(<<ErrorMessages.NO_IMAGE_PROVIDED>>,
                                      "ValidationError", 400)))
    ELSE IF Get(file).size = 0
    THEN Some(ThrownAppError(AppError(<<ErrorMessages.INVALID_FILE_TYPE>>,
                                      "ValidationError", 400)))
    ELSE IF Get(file).size > maxFileSize
    THEN Some(ThrownAppError(AppError(<<ErrorMessages.FILE_TOO_LARGE>>,
                                      "ValidationError", 400)))
    ELSE None

\* a route that takes req.body.storedEmbedding as it comes
StoredEmbeddingOf_Unchecked(body) ==
    Accepted(IF IsSome(body) THEN JsonParse(Get(body)).value ELSE <<>>)

\* POST /compare, lines 85-94: the stored embedding, or the error thrown
StoredEmbeddingOf(body) ==
    IF ~IsSome(body)
    THEN Rejected(AppError(<<ErrorMessages.MISSING_STORED_EMBEDDING>>,
                           "ValidationError", 400))
    ELSE validateEmbedding(Get(body))

\* the parsed array as numbers
NumbersOf(value) == [i \in 1..Len(value) |-> FRat(value[i].v[1], value[i].v[2])]

\* generateEmbedding: the session.run calls of one encodeface
InferenceRuns(cfg) == IF cfg.useTTAFlip THEN 2 ELSE 1

----------------------------------------------------------------------------
(* db.js (legacy server): chooseBestFace and detectAndValidateFace         *)

\* chooseBestFace, the filter, with the literals of db.js
LegacyPassesFilters(box, imgWidth, imgHeight) ==
    LET shorter == RInt(IMin(imgWidth, imgHeight))
        minSize == RMax(RInt(20), RMul(shorter, R(8, 100)))
        maxSize == RMul(shorter, R(65, 100))
        edgeX == RMul(RInt(imgWidth), R(5, 100))
        edgeY == RMul(RInt(imgHeight), R(5, 100))
        aspectRatio == R(box.width, box.height)
    IN  /\ ~(RLt(RInt(box.width), minSize) \/ RLt(RInt(box.height), minSize))
        /\ ~(RLt(maxSize, RInt(box.width)) \/ RLt(maxSize, RInt(box.height)))
        /\ ~(RLt(RInt(box.x), edgeX) \/ RLt(RInt(box.y), edgeY))
        /\ ~RLt(RSub(RInt(imgWidth), edgeX), RInt(box.x + box.width))
        /\ ~RLt(RSub(RInt(imgHeight), edgeY), RInt(box.y + box.height))
        /\ RLe(R(6, 10), aspectRatio)
        /\ RLe(aspectRatio, R(18, 10))

\* chooseBestFace, the second map: 0.65 * score + 0.25 * centrality +
\* 0.1 * sizeRatio
LegacyCompositeScore(box, imgWidth, imgHeight) ==
    LET centerX == RAdd(RInt(box.x), R(box.width, 2))
        centerY == RAdd(RInt(box.y), R(box.height, 2))
        dx == RDiv(RAbs(RSub(centerX, R(imgWidth, 2))), R(imgWidth, 2))
        dy == RDiv(RAbs(RSub(centerY, R(imgHeight, 2))), R(imgHeight, 2))
        centrality == RSub(ROne, RMin(ROne, RHypot(dx, dy)))
        sizeRatio == RMin(ROne, R(box.width * box.height, imgWidth * imgHeight))
    IN  RAdd(RAdd(RMul(R(65, 100), box.score), RMul(R(25, 100), centrality)),
             RMul(R(1, 10), sizeRatio))

RECURSIVE LegacyCandidatesFrom(_, _, _, _)
LegacyCandidatesFrom(boxes, k, imgWidth, imgHeight) ==
    IF k > Len(boxes) THEN <<>>
    ELSE LET px == ToPixels(boxes[k], imgWidth, imgHeight)
         IN  (IF LegacyPassesFilters(px, imgWidth, imgHeight)
              THEN <<[ x |-> px.x, y |-> px.y, width |-> px.width,
                       height |-> px.height, score |-> px.score,
                       compositeScore |->
                           LegacyCompositeScore(px, imgWidth, imgHeight) ]>>
              ELSE <<>>)
             \o LegacyCandidatesFrom(boxes, k + 1, imgWidth, imgHeight)

\* chooseBestFace(detectOut, imgWidth, imgHeight), boxes = detectOut.boxes
chooseBestFace(boxes, imgWidth, imgHeight) ==
    IF boxes = <<>> THEN None
    ELSE LET candidates == LegacyCandidatesFrom(boxes, 1, imgWidth, imgHeight)
         IN  IF candidates = <<>> THEN None
             ELSE Some(SortByCompositeFrom(candidates, 1, <<>>)[1])

LegacyErrNoFaceDetected ==
    [ message |-> "No face detected. Please provide a clear image with a visible face.",
      type |-> "none", statusCode |-> 400 ]

\* detectAndValidateFace(buffer) of db.js, after detectFaces has answered
LegacyValidateFace(boxes, imgWidth, imgHeight, cfg) ==
    IF boxes = <<>>
    THEN [best |-> None, box |-> None, error |-> Some(LegacyErrNoFaceDetected)]
    ELSE LET bestFace == chooseBestFace(boxes, imgWidth, imgHeight)
         IN  IF ~IsSome(bestFace)
             THEN [best |-> None, box |-> None, error |-> Some(LegacyErrNoFaceDetected)]
             ELSE LET processed == LegacyProcessBox(Get(bestFace), imgWidth,
                                                    imgHeight, cfg)
                  IN  [best |-> bestFace, box |-> processed.box,
                       error |-> processed.error]


\* db.js POST /compare, lines 256-278: the stored embedding, or the answer
\* returned at once
LegacyStoredEmbeddingOf(file, body) ==
    IF ~IsSome(file)
    THEN Rejected(AppError(<<"No image provided">>, "none", 400))
    ELSE IF ~IsSome(body)
    THEN Rejected(AppError(<<"Missing storedEmbedding parameter">>, "none", 400))
    ELSE LegacyParseEmbedding(Get(body))

\* res.status(status).json({ success: false, error })
LegacyFailure(status, message) == Response(status, FALSE, "none", message, "none")

\* sharp(buffer).metadata() of the legacy server, which has no file filter:
\* an empty buffer or a buffer that holds no image is refused
Decodable(file) == Get(file).mimetype = "image" /\ Get(file).size > 0

----------------------------------------------------------------------------
(* Specification SpecRequest: one request through a route                  *)

\* the routes of the service, and POST /compare of the legacy server
ServiceRoutes == {"cropface", "encode", "compare"}
Routes == ServiceRoutes \cup {"legacyCompare"}

ImageFile(mimetype, size) == [mimetype |-> mimetype, size |-> size]

\* req.file as the client sent it: absent, an image, an empty image, a
\* text file, an image above the size limit
Files ==
    { None, Some(ImageFile("image", 1000)), Some(ImageFile("image", 0)),
      Some(ImageFile("text", 1000)), Some(ImageFile("image", maxFileSize + 1)) }

\* req.body.storedEmbedding: absent, 512 numbers, 511 numbers, 512 entries
\* one of which is a string, no JSON
Bodies ==
    { None,
      Some(ArrayText(embeddingDimension, Literal(RZero), 1, Literal(ROne))),
      Some(ArrayText(embeddingDimension, Literal(RZero), 2, Literal(ROne))),
      Some(ArrayText(embeddingDimension - 1, Literal(RZero), 1, Literal(ROne))),
      Some(ArrayText(embeddingDimension, Literal(RZero), 2, Token("string", 1, RZero))),
      Some([shape |-> "malformed", tokens |-> <<>>]) }

Requests ==
    { [route |-> r, file |-> f, storedEmbedding |-> b] :
        r \in Routes, f \in Files, b \in Bodies }

\* what the detector returns for the uploaded image
RequestDetections ==
    { <<[width |-> 128, height |-> 128], output>> :
        output \in { DirectOutput(QuadCentre, <<R(9, 10)>>),
                     DirectOutput(QuadTiny, <<R(9, 10)>>),
                     DirectOutput(<<>>, <<>>),
                     NoTensors,
                     [NoTensors EXCEPT !.boxes = Some(QuadCentre)],
                     AnchorOutput({HotA, HotC}, 1, NumAnchors * regStride) } }

\* what the recognizer returns for the crop and for its mirror image
RequestRawOutputs ==
    { PaddedVec(<<3, 4>>, embeddingDimension), PaddedVec(<<0, 5>>, embeddingDimension),
      Vec(<<3, 4>>) }

InitRequest ==
    /\ rqPc = "received"
    /\ rqReq \in {Some(r) : r \in Requests}
    /\ rqCfg \in [useTTAFlip : BOOLEAN]
    /\ rqStored = None
    /\ rqMeta = None
    /\ rqOutput = None
    /\ rqBoxes = <<>>
    /\ rqBox = None
    /\ rqEmbedding = None
    /\ rqResult = None
    /\ rqError = None
    /\ rqTrace = <<>>
    /\ rqCalls = [detector |-> 0, recognizer |-> 0]
    /\ rqResponses = <<>>
    /\ NmsIdle
    /\ DetIdle
    /\ FpIdle
    /\ ValIdle
    /\ EmbIdle
    /\ CmpIdle
    /\ BoxIdle
    /\ DecIdle
    /\ SelIdle
    /\ TtaIdle
    /\ LbIdle

\* upload.single('image')
RqUpload ==
    /\ rqPc = "received"
    /\ Get(rqReq).route \in ServiceRoutes
    /\ \E err \in {upload(Get(rqReq).file)} :
        /\ rqError' = err
        /\ rqPc' = IF IsSome(err) THEN "failed" ELSE "uploaded"
    /\ rqTrace' = Append(rqTrace, "upload")
    /\ UNCHANGED <<rqReq, rqCfg, rqStored, rqMeta, rqOutput, rqBoxes, rqBox,
                   rqEmbedding, rqResult, rqCalls, rqResponses>>
    /\ UNCHANGED exceptRq

\* validateImageUpload(req.file)
RqValidateImageUpload ==
    /\ rqPc = "uploaded"
    /\ \E err \in {validateImageUpload(Get(rqReq).file)} :
        /\ rqError' = err
        /\ rqPc' = IF IsSome(err) THEN "failed"
                   ELSE IF Get(rqReq).route = "compare" THEN "checked"
                   ELSE "validated"
    /\ rqTrace' = Append(rqTrace, "validateImageUpload")
    /\ UNCHANGED <<rqReq, rqCfg, rqStored, rqMeta, rqOutput, rqBoxes, rqBox,
                   rqEmbedding, rqResult, rqCalls, rqResponses>>
    /\ UNCHANGED exceptRq

\* POST /compare: the check and the validation of req.body.storedEmbedding
RqValidateEmbedding ==
    /\ rqPc = "checked"
    /\ \E v \in {StoredEmbeddingOf(Get(rqReq).storedEmbedding)} :
        /\ rqStored' = IF v.ok THEN Some(NumbersOf(v.value)) ELSE None
        /\ rqError' = IF v.ok THEN None ELSE Some(ThrownAppError(Get(v.error)))
        /\ rqPc' = IF v.ok THEN "validated" ELSE "failed"
    /\ rqTrace' = Append(rqTrace, "validateEmbedding")
    /\ UNCHANGED <<rqReq, rqCfg, rqMeta, rqOutput, rqBoxes, rqBox,
                   rqEmbedding, rqResult, rqCalls, rqResponses>>
    /\ UNCHANGED exceptRq

\* detectAndValidateFace: await detectionService.detectFaces(buffer)
RqDetectFaces ==
    /\ rqPc = "validated"
    /\ \E input \in RequestDetections :
        /\ rqMeta' = Some(input[1])
        /\ rqOutput' = Some(input[2])
        /\ rqBoxes' = ServiceDetectBoxes(input[2], input[1], ConfigAnchors)
    /\ rqCalls' = [rqCalls EXCEPT !.detector = @ + 1]
    /\ rqPc' = "detected"
    /\ rqTrace' = Append(rqTrace, "detectFaces")
    /\ UNCHANGED <<rqReq, rqCfg, rqStored, rqBox, rqEmbedding, rqResult, rqError,
                   rqResponses>>
    /\ UNCHANGED exceptRq

\* detectAndValidateFace after detectFaces: it throws, or returns the box
RqValidateFace ==
    /\ rqPc = "detected"
    /\ \E v \in {ValidateFace(rqBoxes, Get(rqMeta).width, Get(rqMeta).height, env)} :
        /\ rqBox' = v.box
        /\ rqError' = IF IsSome(v.error)
                      THEN Some(ThrownAppError([Get(v.error) EXCEPT !.message = <<@>>]))
                      ELSE None
        /\ rqPc' = IF IsSome(v.error) THEN "failed" ELSE "boxed"
        /\ rqTrace' = rqTrace
                      \o (IF rqBoxes = <<>> THEN <<>> ELSE <<"selectBestFace">>)
                      \o (IF IsSome(v.best) THEN <<"processBoundingBox">> ELSE <<>>)
    /\ UNCHANGED <<rqReq, rqCfg, rqStored, rqMeta, rqOutput, rqBoxes,
                   rqEmbedding, rqResult, rqCalls, rqResponses>>
    /\ UNCHANGED exceptRq

\* POST /cropface: await FaceProcessingService.extractFaceCrop(buffer, faceBox)
RqExtractFaceCrop ==
    /\ rqPc = "boxed"
    /\ Get(rqReq).route = "cropface"
    /\ rqPc' = "cropped"
    /\ rqTrace' = Append(rqTrace, "extractFaceCrop")
    /\ UNCHANGED <<rqReq, rqCfg, rqStored, rqMeta, rqOutput, rqBoxes, rqBox,
                   rqEmbedding, rqResult, rqError, rqCalls, rqResponses>>
    /\ UNCHANGED exceptRq

\* POST /encode, /compare: await recognitionService.encodeface(buffer, faceBox)
RqEncodeFace ==
    /\ rqPc = "boxed"
    /\ Get(rqReq).route \in {"encode", "compare"}
    /\ \E raw \in RequestRawOutputs, mirrored \in RequestRawOutputs :
        \E e \in {encodeface(raw, IF rqCfg.useTTAFlip THEN Some(mirrored) ELSE None)} :
            /\ rqEmbedding' = e.embedding
            /\ rqError' = IF IsSome(e.error) THEN Some(ThrownError(Get(e.error)))
                          ELSE None
            /\ rqPc' = IF IsSome(e.error) THEN "failed" ELSE "encoded"
    /\ rqCalls' = [rqCalls EXCEPT !.recognizer = @ + InferenceRuns(rqCfg)]
    /\ rqTrace' = Append(rqTrace, "encodeface")
    /\ UNCHANGED <<rqReq, rqCfg, rqStored, rqMeta, rqOutput, rqBoxes, rqBox,
                   rqResult, rqResponses>>
    /\ UNCHANGED exceptRq

\* POST /compare: comparisonService.detailedComparison(newEmbedding, storedEmbedding)
RqDetailedComparison ==
    /\ rqPc = "encoded"
    /\ Get(rqReq).route = "compare"
    /\ \E c \in {compareEmbeddings(Get(rqEmbedding), Get(rqStored), None)} :
        /\ rqResult' = IF IsSome(c.error) THEN None ELSE Some(c)
        /\ rqError' = IF IsSome(c.error) THEN Some(ThrownAppError(Get(c.error)))
                      ELSE None
        /\ rqPc' = IF IsSome(c.error) THEN "failed" ELSE "compared"
    /\ rqTrace' = Append(rqTrace, "detailedComparison")
    /\ UNCHANGED <<rqReq, rqCfg, rqStored, rqMeta, rqOutput, rqBoxes, rqBox,
                   rqEmbedding, rqCalls, rqResponses>>
    /\ UNCHANGED exceptRq

\* res.send(faceCrop), res.json({success: true, embedding}),
\* res.json({success: true, isMatch, similarity})
RqRespond ==
    /\ \/ rqPc = "cropped"
       \/ rqPc = "encoded" /\ Get(rqReq).route = "encode"
       \/ rqPc = "compared"
    /\ rqResponses' = Append(rqResponses,
                             Response(200, TRUE, "none", <<>>, Get(rqReq).route))
    /\ rqPc' = "responded"
    /\ rqTrace' = Append(rqTrace, "respond")
    /\ UNCHANGED <<rqReq, rqCfg, rqStored, rqMeta, rqOutput, rqBoxes, rqBox,
                   rqEmbedding, rqResult, rqError, rqCalls>>
    /\ UNCHANGED exceptRq

\* next(err): errorHandler sends the error response
RqErrorHandler ==
    /\ rqPc = "failed"
    /\ rqResponses' = Append(rqResponses, errorHandler(Get(rqError)))
    /\ rqPc' = "responded"
    /\ rqTrace' = Append(rqTrace, "errorHandler")
    /\ UNCHANGED <<rqReq, rqCfg, rqStored, rqMeta, rqOutput, rqBoxes, rqBox,
                   rqEmbedding, rqResult, rqError, rqCalls>>
    /\ UNCHANGED exceptRq

\* db.js: upload.single('image') of a multer without fileFilter; its error
\* goes to the default error handler of Express
RqLegacyUpload ==
    /\ rqPc = "received"
    /\ Get(rqReq).route = "legacyCompare"
    /\ IF IsSome(Get(rqReq).file) /\ Get(Get(rqReq).file).size > maxFileSize
       THEN /\ rqError' = Some(Thrown("MulterError", "MulterError", <<"File too large">>, 500))
            /\ rqResponses' = Append(rqResponses, LegacyFailure(500, <<"File too large">>))
            /\ rqPc' = "responded"
       ELSE /\ rqPc' = "legacyUploaded"
            /\ UNCHANGED <<rqError, rqResponses>>
    /\ rqTrace' = Append(rqTrace, "legacyUpload")
    /\ UNCHANGED <<rqReq, rqCfg, rqStored, rqMeta, rqOutput, rqBoxes, rqBox,
                   rqEmbedding, rqResult, rqCalls>>
    /\ UNCHANGED exceptRq

\* db.js POST /compare, lines 256-278: the checks before the first await
RqLegacyValidate ==
    /\ rqPc = "legacyUploaded"
    /\ \E v \in {LegacyStoredEmbeddingOf(Get(rqReq).file, Get(rqReq).storedEmbedding)} :
        /\ rqStored' = IF v.ok THEN Some(NumbersOf(v.value)) ELSE None
        /\ rqError' = IF v.ok THEN None ELSE Some(ThrownAppError(Get(v.error)))
        /\ rqResponses' = IF v.ok THEN rqResponses
                          ELSE Append(rqResponses, LegacyFailure(400, Get(v.error).message))
        /\ rqPc' = IF v.ok THEN "legacyValidated" ELSE "responded"
    /\ rqTrace' = Append(rqTrace, "legacyValidate")
    /\ UNCHANGED <<rqReq, rqCfg, rqMeta, rqOutput, rqBoxes, rqBox,
                   rqEmbedding, rqResult, rqCalls>>
    /\ UNCHANGED exceptRq

\* db.js POST /compare, line 281: await detectAndValidateFace(buffer); the
\* catch block answers 400 to 'No face' and 'too small'
RqLegacyDetectAndValidateFace ==
    /\ rqPc = "legacyValidated"
    /\ IF ~Decodable(Get(rqReq).file)
       THEN /\ rqError' = Some(ThrownError("Input buffer contains unsupported image format"))
            /\ rqResponses' = Append(rqResponses,
                   LegacyFailure(500, <<"Input buffer contains unsupported image format">>))
            /\ rqPc' = "responded"
            /\ UNCHANGED <<rqMeta, rqOutput, rqBoxes, rqBox, rqCalls>>
       ELSE /\ \E input \in RequestDetections :
                \E boxes \in {LegacyDetectBoxes(input[2], input[1])} :
                  \E v \in {LegacyValidateFace(boxes, input[1].width,
                                               input[1].height, env)} :
                    /\ rqMeta' = Some(input[1])
                    /\ rqOutput' = Some(input[2])
                    /\ rqBoxes' = boxes
                    /\ rqBox' = v.box
                    /\ rqError' = IF IsSome(v.error)
                                  THEN Some(ThrownError(Get(v.error).message))
                                  ELSE None
                    /\ rqResponses' = IF IsSome(v.error)
                                      THEN Append(rqResponses,
                                             LegacyFailure(400, <<Get(v.error).message>>))
                                      ELSE rqResponses
                    /\ rqPc' = IF IsSome(v.error) THEN "responded" ELSE "legacyBoxed"
            /\ rqCalls' = [rqCalls EXCEPT !.detector = @ + 1]
    /\ rqTrace' = Append(rqTrace, "legacyDetectAndValidateFace")
    /\ UNCHANGED <<rqReq, rqCfg, rqStored, rqEmbedding, rqResult>>
    /\ UNCHANGED exceptRq

\* db.js POST /compare, lines 282-287: preprocessFaceCrop, runArcFace and
\* the length check, whose Error the catch block answers with 500
RqLegacyRunArcFace ==
    /\ rqPc = "legacyBoxed"
    /\ \E raw \in RequestRawOutputs, mirrored \in RequestRawOutputs :
        \E e \in {LegacyEncode(raw, IF rqCfg.useTTAFlip THEN Some(mirrored) ELSE None)} :
            /\ rqEmbedding' = e.embedding
            /\ rqError' = IF IsSome(e.error) THEN Some(ThrownError(Get(e.error)))
                          ELSE None
            /\ rqResponses' = IF IsSome(e.error)
                              THEN Append(rqResponses, LegacyFailure(500, <<Get(e.error)>>))
                              ELSE rqResponses
            /\ rqPc' = IF IsSome(e.error) THEN "responded" ELSE "legacyEncoded"
    /\ rqCalls' = [rqCalls EXCEPT !.recognizer = @ + InferenceRuns(rqCfg)]
    /\ rqTrace' = Append(rqTrace, "legacyRunArcFace")
    /\ UNCHANGED <<rqReq, rqCfg, rqStored, rqMeta, rqOutput, rqBoxes, rqBox, rqResult>>
    /\ UNCHANGED exceptRq

\* db.js POST /compare, lines 289-317: cosineSimilarity and the response
RqLegacyCompare ==
    /\ rqPc = "legacyEncoded"
    /\ \E c \in {LegacyCompareEmbeddings(Get(rqEmbedding), Get(rqStored), None)} :
        /\ rqResult' = IF IsSome(c.error) THEN None ELSE Some(c)
        /\ rqError' = IF IsSome(c.error) THEN Some(ThrownError(Get(c.error).message[1]))
                      ELSE None
        /\ rqResponses' = Append(rqResponses,
                                 IF IsSome(c.error)
                                 THEN LegacyFailure(500, Get(c.error).message)
                                 ELSE Response(200, TRUE, "none", <<>>, "legacyCompare"))
    /\ rqPc' = "responded"
    /\ rqTrace' = Append(rqTrace, "legacyCompare")
    /\ UNCHANGED <<rqReq, rqCfg, rqStored, rqMeta, rqOutput, rqBoxes, rqBox,
                   rqEmbedding, rqCalls>>
    /\ UNCHANGED exceptRq

NextRequest ==
    \/ RqUpload
    \/ RqValidateImageUpload
    \/ RqValidateEmbedding
    \/ RqDetectFaces
    \/ RqValidateFace
    \/ RqExtractFaceCrop
    \/ RqEncodeFace
    \/ RqDetailedComparison
    \/ RqRespond
    \/ RqErrorHandler
    \/ RqLegacyUpload
    \/ RqLegacyValidate
    \/ RqLegacyDetectAndValidateFace
    \/ RqLegacyRunArcFace
    \/ RqLegacyCompare

SpecRequest == InitRequest /\ [][NextRequest]_vars

\* C16: a detector output that is neither the direct format nor the anchor
\* format fails the request with a ModelError, not with the NoFaceDetected
\* detection error.
C16_UnrecognizedIsModelError ==
    (/\ rqPc = "responded"
     /\ IsSome(rqOutput)
     /\ OutputFormat(Get(rqOutput)) = "none") =>
        /\ Len(rqResponses) = 1
        /\ rqResponses[1].success = FALSE
        /\ rqResponses[1].type = "ModelError"
        /\ rqResponses[1].error # <<ErrNoFaceDetected.message>>

\* the unrecognized output reached the response
C16_Reached ==
    /\ rqPc = "responded"
    /\ rqOutput = Some(NoTensors)
    /\ rqResponses = <<Response(400, FALSE, "DetectionError",
                                <<ErrNoFaceDetected.message>>, "none")>>

\* how often a stage has run
Runs(stage) == Cardinality({k \in 1..Len(rqTrace) : rqTrace[k] = stage})

NoStageRetried ==
    /\ rqCalls.detector <= 1
    /\ rqCalls.recognizer <= (IF rqCfg.useTTAFlip THEN 2 ELSE 1)
    /\ \A k \in 1..Len(rqTrace) : Runs(rqTrace[k]) = 1

AtMostOneResponse ==
    /\ Len(rqResponses) <= 1
    /\ (rqPc = "responded") <=> (Len(rqResponses) = 1)
    /\ IsSome(rqError) => \A k \in 1..Len(rqResponses) : ~rqResponses[k].success

\* a request without a response is at an await or a call that has a
\* continuation in its route
HasContinuation ==
    \/ rqPc \in {"received", "uploaded", "checked", "validated", "detected", "boxed",
                 "cropped", "compared", "failed"}
    \/ rqPc \in {"legacyUploaded", "legacyValidated", "legacyBoxed", "legacyEncoded"}
    \/ rqPc = "encoded" /\ Get(rqReq).route \in {"encode", "compare"}

\* after a failure nothing runs but the error handler
FailureIsTerminal ==
    IsSome(rqError) =>
        /\ rqError' = rqError
        /\ rqCalls' = rqCalls
        /\ rqTrace' \in {rqTrace, Append(rqTrace, "errorHandler")}
        /\ <<rqStored, rqMeta, rqOutput, rqBoxes, rqBox, rqEmbedding, rqResult>>' =
           <<rqStored, rqMeta, rqOutput, rqBoxes, rqBox, rqEmbedding, rqResult>>

\* C17: within one request no stage is retried and a failure is terminal:
\* the detector runs at most once, the recognizer at most once (twice with
\* the flip augmentation); once a stage has failed no later stage runs and
\* no success or partial result is sent; every request ends with exactly
\* one response (no stage runs twice, a request without a response has a
\* continuation, and the response ends it).
C17_NoRetryOneResponse ==
    /\ [](NoStageRetried /\ AtMostOneResponse)
    /\ [](rqPc = "responded" \/ HasContinuation)
    /\ [][FailureIsTerminal]_vars

\* a request that failed in the recognizer stage, after one detector run
\* and two recognizer runs, and was answered once, with the error
C17_Witness ==
    /\ rqPc = "responded"
    /\ rqCalls = [detector |-> 1, recognizer |-> 2]
    /\ rqTrace[Len(rqTrace) - 1] = "encodeface"
    /\ rqTrace[Len(rqTrace)] = "errorHandler"
    /\ rqError = Some(ThrownError("Failed to generate valid embedding"))
    /\ rqResponses = <<Response(500, FALSE, "InternalError",
                                <<"Internal server error">>, "none")>>

\* the request is a /compare request, of the service or of the legacy server
IsCompare == Get(rqReq).route \in {"compare", "legacyCompare"}

\* the image is missing, or storedEmbedding is missing, is no JSON, is no
\* array of 512 entries, or has an entry that is no number
InvalidCompareInput ==
    \/ ~IsSome(Get(rqReq).file)
    \/ ~IsSome(Get(rqReq).storedEmbedding)
    \/ \E t \in {Get(Get(rqReq).storedEmbedding)} :
          \/ t.shape # "array"
          \/ Len(t.tokens) # 512
          \/ \E i \in 1..Len(t.tokens) : t.tokens[i].kind \in {"ident", "null", "string"}

\* multer has handed the request to the route
Uploaded ==
    \/ "validateImageUpload" \in {rqTrace[k] : k \in 1..Len(rqTrace)}
    \/ "legacyValidate" \in {rqTrace[k] : k \in 1..Len(rqTrace)}

\* the validation of the image and of storedEmbedding has run and passed
ValidationPassed ==
    \E k \in 1..Len(rqTrace) :
        /\ rqTrace[k] \in {"validateEmbedding", "legacyValidate"}
        /\ IsSome(rqStored)

LegacyRefusedUnvalidated ==
    /\ rqPc = "responded"
    /\ Get(rqReq).route = "legacyCompare"
    /\ InvalidCompareInput
    /\ rqTrace = <<"legacyUpload", "legacyValidate">>

----------------------------------------------------------------------------
(* Specification SpecDecode: _decodeAnchors / decodeAnchors on detector    *)
(* outputs in the anchor format                                            *)

\* hot anchors: in range, too tall, too flat, of width 0, the last anchor
HotTall == <<300, <<3, 3>>, <<0, 0, 64, 80>>>>
HotFlat == <<400, <<3, 3>>, <<0, 0, 40, 2>>>>
HotEmpty == <<500, <<3, 3>>, <<0, 0, 0, 40>>>>
HotLast == <<895, <<0, 3>>, <<0, 0, 40, 48>>>>

HotSets ==
    { {HotA, HotB}, {HotA, HotC}, {HotC, HotD}, {HotTall, HotFlat}, {HotEmpty, HotLast},
      {HotA, HotLast}, {HotTall, HotC}, {HotFlat, HotB}, {HotLast} }

\* the first len entries of an array
Truncated(a, len) ==
    [a EXCEPT !.len = len, !.hot = [k \in {j \in DOMAIN a.hot : j < len} |-> a.hot[k]]]

\* classifier width and array length: one logit per anchor, two, two with
\* the last entry missing
ClassifierShapes == { <<1, NumAnchors>>, <<2, 2 * NumAnchors>>, <<2, 2 * NumAnchors - 1>> }

\* regressors: all anchors, the slice of the last anchor cut, cut at anchor 272
RegressorLengths ==
    { NumAnchors * regStride, (NumAnchors - 1) * regStride + 3, 272 * regStride + 3 }

DecoderMetas ==
    { [width |-> 128, height |-> 128], [width |-> 160, height |-> 120] }

DecoderArgs ==
    { [ regressors |-> Truncated(Get(AnchorOutput(hots, shape[1], regLen).regressors), regLen),
        classificators |-> Truncated(Get(AnchorOutput(hots, shape[1], regLen).classificators),
                                     shape[2]),
        meta |-> meta ] :
        hots \in HotSets, shape \in ClassifierShapes, regLen \in RegressorLengths,
        meta \in DecoderMetas }

InitDecode ==
    /\ DecIdle
    /\ NmsIdle
    /\ DetIdle
    /\ FpIdle
    /\ ValIdle
    /\ EmbIdle
    /\ CmpIdle
    /\ BoxIdle
    /\ RqIdle
    /\ SelIdle
    /\ TtaIdle
    /\ LbIdle

\* FaceDetectionService._decodeAnchors(regressors, classificators,
\* targetSize, mapFunc)
ServiceDecodeAnchors ==
    /\ decPc = "idle"
    /\ \E a \in DecoderArgs :
        \E pushed \in {DecodeIterations(a.regressors, a.classificators, ConfigAnchors,
                                        prepareInput(a.meta).targetSize,
                                        prepareInput(a.meta), a.meta)} :
            /\ decArgs' = Some(a)
            /\ decPushed' = pushed
            /\ decDetections' = PushedDetections(pushed)
    /\ decImpl' = "service"
    /\ decPc' = "done"
    /\ UNCHANGED exceptDec

\* modelloader.js decodeAnchors(regressors, classificators, anchors, TARGET,
\* mapCoords)
LegacyDecodeAnchors ==
    /\ decPc = "idle"
    /\ \E a \in DecoderArgs :
        \E pushed \in {DecodeIterations(a.regressors, a.classificators, ConfigAnchors,
                                        targetSize, prepareInput(a.meta), a.meta)} :
            /\ decArgs' = Some(a)
            /\ decPushed' = pushed
            /\ decDetections' = PushedDetections(pushed)
    /\ decImpl' = "legacy"
    /\ decPc' = "done"
    /\ UNCHANGED exceptDec

NextDecode ==
    \/ ServiceDecodeAnchors
    \/ LegacyDecodeAnchors

SpecDecode == InitDecode /\ [][NextDecode]_vars

\* C18: every detection the anchor decoder emits has a score in [0, 1]
\* that is at least confidenceThreshold; no detection with a lower or an
\* undefined score is emitted.
C18_ScoresAboveThreshold ==
    \A k \in 1..Len(decDetections) :
        /\ ~IsNaN(decDetections[k].score)
        /\ RLe(RZero, decDetections[k].score)
        /\ RLe(decDetections[k].score, ROne)
        /\ RLe(confidenceThreshold, decDetections[k].score)

\* the last anchor, scored from a logit beyond the end of classificators,
\* is emitted with the score NaN
C18_Reached ==
    /\ decPc = "done"
    /\ Get(decArgs).classificators.len = 2 * NumAnchors - 1
    /\ IsSome(decPushed[NumAnchors])
    /\ IsNaN(Get(decPushed[NumAnchors]).score)

\* the call's arguments, and what the loop computes for anchor i
DecRegressors == Get(decArgs).regressors
DecClassificators == Get(decArgs).classificators
DecStride == IF DecClassificators.len = NumAnchors THEN 1 ELSE 2
DecScale == prepareInput(Get(decArgs).meta).scale

DecScore(i) ==
    AnchorScore(DecClassificators, DecStride, i,
                LogitScore(DecStride, FillAt(DecClassificators, 0),
                           FillAt(DecClassificators, 1)))

\* anchor i reaches the size filter
Candidate(i) ==
    /\ i * regStride + 3 < DecRegressors.len
    /\ ~BelowThreshold(DecScore(i))

\* the size of the candidate of anchor i (j = 2: width, j = 3: height) as a
\* fraction of the network input, and of the original image
InputFraction(i, j) == R(Abs(ArrAt(DecRegressors, i * regStride + j)), targetSize)

ImageFraction(i, j) ==
    RDiv(RDiv(RMul(InputFraction(i, j), RInt(targetSize)), DecScale),
         RInt(IF j = 2 THEN Get(decArgs).meta.width ELSE Get(decArgs).meta.height))

InSizeInterval(f) == RLt(RZero, f) /\ RLe(minFaceSize, f) /\ RLe(f, maxFaceSize)

\* C19 as stated: a candidate is kept exactly when its width and height as
\* fractions of the letterboxed network input are > 0 and within
\* [minFaceSize, maxFaceSize].
C19_AsStated ==
    decPc = "done" =>
        \A i \in 0..(NumAnchors - 1) :
            Candidate(i) =>
                (IsSome(decPushed[i + 1]) <=>
                    /\ InSizeInterval(InputFraction(i, 2))
                    /\ InSizeInterval(InputFraction(i, 3)))

\* C19: a candidate is kept exactly when its width and height as fractions
\* of the original image (the mapped width and height) are > 0 and within
\* [minFaceSize, maxFaceSize].
C19_SizeFilter ==
    decPc = "done" =>
        \A i \in 0..(NumAnchors - 1) :
            Candidate(i) =>
                (IsSome(decPushed[i + 1]) <=>
                    /\ InSizeInterval(ImageFraction(i, 2))
                    /\ InSizeInterval(ImageFraction(i, 3)))

\* in a 160x120 image the candidate of anchor 300 is 80/128 of the input
\* high but 5/6 of the image: it is discarded; the candidate of anchor 400
\* is 2/128 of the input high but 1/48 of the image: it is kept
C19_Witness ==
    /\ decPc = "done"
    /\ Get(decArgs).meta = [width |-> 160, height |-> 120]
    /\ Candidate(300) /\ Candidate(400)
    /\ InSizeInterval(InputFraction(300, 3)) /\ ImageFraction(300, 3) = R(5, 6)
    /\ decPushed[301] = None
    /\ ~InSizeInterval(InputFraction(400, 3)) /\ ImageFraction(400, 3) = R(1, 48)
    /\ IsSome(decPushed[401])

\* the detection the claim describes for anchor i
AlignedDetection(i) ==
    LET dx == ArrAt(DecRegressors, 16 * i)
        dy == ArrAt(DecRegressors, 16 * i + 1)
        dw == ArrAt(DecRegressors, 16 * i + 2)
        dh == ArrAt(DecRegressors, 16 * i + 3)
        mapped == mapFunc(RAdd(ConfigAnchors[i + 1].cx, R(dx, targetSize)),
                          RAdd(ConfigAnchors[i + 1].cy, R(dy, targetSize)),
                          R(Abs(dw), targetSize), R(Abs(dh), targetSize),
                          prepareInput(Get(decArgs).meta), Get(decArgs).meta)
        score == IF DecStride = 1
                 THEN LogitScore(1, ArrAt(DecClassificators, i), 0)
                 ELSE LogitScore(2, ArrAt(DecClassificators, 2 * i),
                                 ArrAt(DecClassificators, 2 * i + 1))
    IN  Box(mapped.x, mapped.y, mapped.width, mapped.height, score)

\* C20: with one or two logits per anchor, the detection of anchor i is
\* computed from anchors[i], regressors[16i..16i+3] and classificators[i]
\* (or [2i], [2i+1]): centre anchor + (dx, dy)/targetSize, size
\* (|dw|, |dh|)/targetSize; an anchor whose regressor slice reaches beyond
\* the end of the array is skipped.
C20_IndexAlignment ==
    (decPc = "done" /\ DecClassificators.len \in {NumAnchors, 2 * NumAnchors}) =>
        \A i \in 0..(NumAnchors - 1) :
            /\ (16 * i + 3 >= DecRegressors.len) => decPushed[i + 1] = None
            /\ IsSome(decPushed[i + 1]) => Get(decPushed[i + 1]) = AlignedDetection(i)

\* anchor 272 is decoded, and the last anchor, whose logits pass the
\* threshold, is skipped because its slice ends one entry beyond the array
C20_Witness ==
    /\ decPc = "done"
    /\ DecClassificators.len = 2 * NumAnchors
    /\ DecRegressors.len = (NumAnchors - 1) * regStride + 3
    /\ IsSome(decPushed[273])
    /\ Get(decPushed[273]) = AlignedDetection(272)
    /\ ~BelowThreshold(DecScore(NumAnchors - 1))
    /\ decPushed[NumAnchors] = None

----------------------------------------------------------------------------
(* Specification SpecSelect: detectAndValidateFace of the service and of   *)
(* the legacy server on the same detection boxes                           *)

FaceCentre == Box(R(3, 10), R(3, 10), R(4, 10), R(4, 10), R(9, 10))
FaceLeft == Box(R(2, 10), R(35, 100), R(3, 10), R(3, 10), R(8, 10))
FaceRight == Box(R(5, 10), R(35, 100), R(3, 10), R(3, 10), R(8, 10))
FaceCorner == Box(R(1, 10), R(1, 10), R(3, 10), R(3, 10), R(95, 100))
FaceMinimal == Box(R(4, 10), R(4, 10), R(2, 10), R(2, 10), R(7, 10))
FaceTiny == Box(R(45, 100), R(45, 100), R(1, 10), R(1, 10), R(9, 10))
FaceEdge == Box(RZero, RZero, R(4, 10), R(4, 10), R(9, 10))
FaceWide == Box(R(2, 10), R(4, 10), R(6, 10), R(2, 10), R(8, 10))
FaceBig == Box(R(1, 10), R(1, 10), R(8, 10), R(8, 10), R(9, 10))

SelectPool ==
    { FaceCentre, FaceLeft, FaceRight, FaceCorner, FaceMinimal, FaceTiny,
      FaceEdge, FaceWide, FaceBig }

SelectImages ==
    { [width |-> 100, height |-> 100], [width |-> 160, height |-> 120] }

\* a 400x300 image, where 0.08 * min(W, H) = 24 exceeds minPixelSize, and
\* two centred faces of 24x24 and 22x22 pixels
LargeImage == [width |-> 400, height |-> 300]
FaceCentred24 == Box(R(188, 400), R(138, 300), R(24, 400), R(24, 300), R(9, 10))
FaceCentred22 == Box(R(189, 400), R(139, 300), R(22, 400), R(22, 300), R(9, 10))

SelectLists ==
    {<<>>} \cup { <<a>> : a \in SelectPool }
           \cup { <<a, b>> : a \in SelectPool, b \in SelectPool }
           \cup { <<FaceTiny, FaceLeft, FaceRight>>, <<FaceRight, FaceCorner, FaceLeft>>,
                  <<FaceCorner, FaceMinimal, FaceCentre>> }

\* FACE_EXPAND_RATIO and SQUARE_CROP
SelectConfigs ==
    [ useSquareCrop : BOOLEAN, faceExpandRatio : {R(10, 100), R(30, 100), R(-50, 100)} ]

SelectArgs ==
    { [boxes |-> l, image |-> i, cfg |-> c] :
        l \in SelectLists, i \in SelectImages, c \in SelectConfigs }
    \cup { [boxes |-> l, image |-> LargeImage, cfg |-> c] :
             l \in { <<FaceCentred24>>, <<FaceCentred22>>,
                     <<FaceCentred22, FaceCentred24>> },
             c \in SelectConfigs }

InitSelect ==
    /\ SelIdle
    /\ NmsIdle
    /\ DetIdle
    /\ FpIdle
    /\ ValIdle
    /\ EmbIdle
    /\ CmpIdle
    /\ BoxIdle
    /\ RqIdle
    /\ DecIdle
    /\ TtaIdle
    /\ LbIdle

\* FaceProcessingService.detectAndValidateFace, from the boxes on
ServiceSelectFace ==
    /\ selPc = "idle"
    /\ \E a \in SelectArgs :
         \E v \in {ValidateFace(a.boxes, a.image.width, a.image.height, a.cfg)} :
           /\ selArgs' = Some(a)
           /\ selBest' = v.best
           /\ selBox' = v.box
           /\ selError' = v.error
    /\ selImpl' = "service"
    /\ selPc' = "done"
    /\ UNCHANGED exceptSel

\* detectAndValidateFace of db.js, from the boxes on
LegacySelectFace ==
    /\ selPc = "idle"
    /\ \E a \in SelectArgs :
         \E v \in {LegacyValidateFace(a.boxes, a.image.width, a.image.height, a.cfg)} :
           /\ selArgs' = Some(a)
           /\ selBest' = v.best
           /\ selBox' = v.box
           /\ selError' = v.error
    /\ selImpl' = "legacy"
    /\ selPc' = "done"
    /\ UNCHANGED exceptSel

NextSelect == ServiceSelectFace \/ LegacySelectFace

SpecSelect == InitSelect /\ [][NextSelect]_vars

SelImage == Get(selArgs).image
SelBoxes == Get(selArgs).boxes
Shorter == IMin(SelImage.width, SelImage.height)

\* C21: a box returned by the face selector has integer pixel coordinates,
\* lies inside the image, has width and height of at least
\* max(minPixelSize, 0.08 * min(imgW, imgH)) and at most
\* 0.65 * min(imgW, imgH), keeps 5% of the image dimension away from each
\* of the four edges, and has a width/height ratio in [0.6, 1.8].
C21_ReturnedBoxPassesFilters ==
    (selPc = "done" /\ IsSome(selBest)) =>
        LET b == Get(selBest)
            W == SelImage.width
            H == SelImage.height
        IN  /\ b.x \in Int /\ b.y \in Int /\ b.width \in Int /\ b.height \in Int
            /\ b.x >= 0 /\ b.y >= 0
            /\ b.x + b.width <= W /\ b.y + b.height <= H
            /\ b.width >= 20 /\ b.height >= 20
            /\ 100 * b.width >= 8 * Shorter /\ 100 * b.height >= 8 * Shorter
            /\ 100 * b.width <= 65 * Shorter /\ 100 * b.height <= 65 * Shorter
            /\ 100 * b.x >= 5 * W /\ 100 * b.y >= 5 * H
            /\ 100 * (b.x + b.width) <= 95 * W
            /\ 100 * (b.y + b.height) <= 95 * H
            /\ 10 * b.width >= 6 * b.height
            /\ 10 * b.width <= 18 * b.height

\* a face was returned from a list whose first box the filters reject
C21_Witness ==
    /\ selPc = "done"
    /\ IsSome(selBest)
    /\ Len(SelBoxes) >= 2
    /\ SelBoxes[1] \in {FaceTiny, FaceEdge, FaceWide, FaceBig}

\* the candidates that passed the filters, in the order of the input list
Survivors ==
    IF selImpl = "legacy"
    THEN LegacyCandidatesFrom(SelBoxes, 1, SelImage.width, SelImage.height)
    ELSE Candidates(SelBoxes, SelImage.width, SelImage.height)

\* 0.65 * score + 0.25 * centrality + 0.10 * sizeRatio of a pixel box
WeightedSum(b) ==
    LET dx == R(Abs(2 * b.x + b.width - SelImage.width), SelImage.width)
        dy == R(Abs(2 * b.y + b.height - SelImage.height), SelImage.height)
        centrality == RSub(ROne, RMin(ROne, RHypot(dx, dy)))
        sizeRatio == RMin(ROne, R(b.width * b.height, SelImage.width * SelImage.height))
    IN  RAdd(RAdd(RMul(R(65, 100), b.score), RMul(R(25, 100), centrality)),
             RMul(R(10, 100), sizeRatio))

ArgMaxIsNotByScore ==
    /\ selPc = "done"
    /\ IsSome(selBest)
    /\ \E j \in 1..Len(Survivors) : RLt(Get(selBest).score, Survivors[j].score)

\* the failure condition an error stands for
FailureOf(error) ==
    IF ~IsSome(error) THEN "none"
    ELSE IF Get(error).message \in {"NO_FACE_DETECTED", LegacyErrNoFaceDetected.message}
    THEN "NoFaceDetected"
    ELSE IF Get(error).message \in {"FACE_TOO_SMALL", LegacyErrFaceTooSmall.message}
    THEN "FaceTooSmall"
    ELSE "other"

\* what the other pipeline answers on the same boxes, image and configuration
OtherPipeline ==
    IF selImpl = "legacy"
    THEN ValidateFace(SelBoxes, SelImage.width, SelImage.height, Get(selArgs).cfg)
    ELSE LegacyValidateFace(SelBoxes, SelImage.width, SelImage.height, Get(selArgs).cfg)

\* C30: on the same detection boxes, image dimensions and configuration the
\* legacy pipeline and the service pipeline end the same way: with the same
\* processed box, or with the same failure, NoFaceDetected or FaceTooSmall.
C30_SamePipelineOutcome ==
    selPc = "done" =>
        /\ selBox = OtherPipeline.box
        /\ FailureOf(selError) = FailureOf(OtherPipeline.error)

\* the same, for the expand ratios that are not negative
SameOutcomeNonNegativeRatio ==
    (selPc = "done" /\ ~RLt(Get(selArgs).cfg.faceExpandRatio, RZero)) =>
        /\ selBox = OtherPipeline.box
        /\ FailureOf(selError) = FailureOf(OtherPipeline.error)

----------------------------------------------------------------------------
(* utils/imageProcessing.js: flipHorizontal, convertNHWCtoNCHW.  A typed   *)
(* array of n elements is a sequence of length n: element i of the code is *)
(* element i + 1 of the sequence.                                          *)

\* where the loop body of flipHorizontal writes the element it reads at
\* srcIdx: dstIdx = (y * width + (width - 1 - x)) * 3 + c
FlipIndex_Rows(srcIdx, height, width) ==
    LET y == srcIdx \div (3 * width)
        x == (srcIdx \div 3) % width
        c == srcIdx % 3
    IN  ((height - 1 - y) * width + x) * 3 + c

FlipIndex(srcIdx, height, width) ==
    LET y == srcIdx \div (3 * width)
        x == (srcIdx \div 3) % width
        c == srcIdx % 3
    IN  (y * width + (width - 1 - x)) * 3 + c

\* the three nested loops, from srcIdx on: they visit srcIdx = 0, 1, 2, ...
RECURSIVE FlipFrom(_, _, _, _, _)
FlipFrom(nhwcData, height, width, srcIdx, flipped) ==
    IF srcIdx >= height * width * 3 THEN flipped
    ELSE FlipFrom(nhwcData, height, width, srcIdx + 1,
                  [flipped EXCEPT ![FlipIndex(srcIdx, height, width) + 1] =
                                      nhwcData[srcIdx + 1]])

flipHorizontal(nhwcData, height, width) ==
    FlipFrom(nhwcData, height, width, 0, [i \in 1..(height * width * 3) |-> 0])

\* nchwData[index++] = nhwcData[(y * width + x) * 3 + channel], for channel
\* of channelOrder, y, x
convertNHWCtoNCHW(nhwcData, height, width, channelOrder) ==
    [ i \in 1..(3 * height * width) |->
        LET index == i - 1
            channel == channelOrder[(index \div (height * width)) + 1]
            y == (index % (height * width)) \div width
            x == index % width
        IN  nhwcData[(y * width + x) * 3 + channel + 1] ]

\* config.arcface.channelOrder === 'BGR' ? [2, 1, 0] : [0, 1, 2]
ChannelOrder(cfg) == IF cfg.channelOrder = "BGR" THEN <<2, 1, 0>> ELSE <<0, 1, 2>>

\* preprocessFace, from the normalized pixels on
Preprocessed(normalizedData, size, cfg) ==
    [ nchw |-> convertNHWCtoNCHW(normalizedData, size, size, ChannelOrder(cfg)),
      nhwc |-> normalizedData,
      size |-> size ]

\* generateEmbedding: the tensors _runInference is called with
InferenceInputs(preprocessedData, cfg) ==
    IF cfg.useTTAFlip
    THEN << preprocessedData.nchw,
            convertNHWCtoNCHW(flipHorizontal(preprocessedData.nhwc,
                                             preprocessedData.size,
                                             preprocessedData.size),
                              preprocessedData.size, preprocessedData.size,
                              ChannelOrder(cfg)) >>
    ELSE << preprocessedData.nchw >>

----------------------------------------------------------------------------
(* Specification SpecTTA: generateEmbedding on preprocessed crops          *)

\* crops are MaxCropSize pixels wide and high at most; the service's are
\* config.arcface.inputSize = 112 wide and high
MaxCropSize == 3

\* normalized pixels: all different, and a crop with equal columns
CropsOf(size) ==
    { [i \in 1..(size * size * 3) |-> i],
      [i \in 1..(size * size * 3) |-> ((i - 1) \div (3 * size)) * 3 + ((i - 1) % 3)] }

ArcfaceConfigs == [ useTTAFlip : BOOLEAN, channelOrder : {"RGB", "BGR"} ]

RecognizerOutputs ==
    { PaddedVec(h, embeddingDimension) : h \in {<<3, 4>>, <<0, 5>>, <<1, 2, 2>>, <<6, 8>>} }

InitTTA ==
    /\ TtaIdle
    /\ NmsIdle
    /\ DetIdle
    /\ FpIdle
    /\ ValIdle
    /\ EmbIdle
    /\ CmpIdle
    /\ BoxIdle
    /\ RqIdle
    /\ DecIdle
    /\ SelIdle
    /\ LbIdle

\* FaceRecognitionService.generateEmbedding(preprocessedData): a and b are
\* what the session returns in the first and in the second run
TtaGenerateEmbedding ==
    /\ ttaPc = "idle"
    /\ \E cfg \in ArcfaceConfigs, size \in 2..MaxCropSize, a \in RecognizerOutputs :
         \E crop \in CropsOf(size), b \in (IF cfg.useTTAFlip THEN RecognizerOutputs ELSE {a}) :
           \E pre \in {Preprocessed(crop, size, cfg)} :
             /\ ttaCfg' = Some(cfg)
             /\ ttaInput' = Some(pre)
             /\ ttaCalls' = InferenceInputs(pre, cfg)
             /\ ttaOutputs' = (IF cfg.useTTAFlip THEN <<a, b>> ELSE <<a>>)
             /\ ttaEmbedding' = Some(generateEmbedding(a, IF cfg.useTTAFlip THEN Some(b)
                                                        ELSE None))
    /\ ttaPc' = "done"
    /\ UNCHANGED exceptTta

NextTTA == TtaGenerateEmbedding

SpecTTA == InitTTA /\ [][NextTTA]_vars

TtaSize == Get(ttaInput).size
TtaPixels == Get(ttaInput).nhwc

\* the element of channel plane p, row y, column x of the crop, in the
\* configured channel order
PixelAt(p, y, x) ==
    TtaPixels[(y * TtaSize + x) * 3 + ChannelOrder(Get(ttaCfg))[p + 1] + 1]

\* tensor t is the planar layout of the crop (mirrored or not)
IsPlanar(t, mirrored) ==
    /\ Len(t) = 3 * TtaSize * TtaSize
    /\ \A p \in 0..2, y \in 0..(TtaSize - 1), x \in 0..(TtaSize - 1) :
          t[p * TtaSize * TtaSize + y * TtaSize + x + 1] =
              PixelAt(p, y, IF mirrored THEN TtaSize - 1 - x ELSE x)

\* the elementwise mean 0.5 * (a + b) of the two outputs
MeanOutput ==
    [i \in 1..embeddingDimension |->
        FMul(FRat(1, 2), FAdd(ttaOutputs[1][i], ttaOutputs[2][i]))]

\* C26: with the flip augmentation on the recognizer is run exactly twice,
\* on the planar tensor of the crop and on the planar tensor of its mirror
\* image (column x moved to column size-1-x in every row and channel), and
\* the embedding is the L2 normalization of the elementwise mean of the two
\* outputs; with it off the recognizer is run exactly once and the
\* embedding is the L2 normalization of its output.
C26_FlipAugmentation ==
    ttaPc = "done" =>
        IF Get(ttaCfg).useTTAFlip
        THEN /\ Len(ttaCalls) = 2
             /\ IsPlanar(ttaCalls[1], FALSE)
             /\ IsPlanar(ttaCalls[2], TRUE)
             /\ Get(ttaEmbedding) = l2Normalize(MeanOutput)
        ELSE /\ Len(ttaCalls) = 1
             /\ IsPlanar(ttaCalls[1], FALSE)
             /\ Get(ttaEmbedding) = l2Normalize(ttaOutputs[1])

\* the recognizer ran on a crop and on its mirror image, which differs from
\* it, and returned two different outputs
C26_Witness ==
    /\ ttaPc = "done"
    /\ Get(ttaCfg).useTTAFlip
    /\ Len(ttaCalls) = 2
    /\ ttaCalls[1] # ttaCalls[2]
    /\ ttaOutputs[1] # ttaOutputs[2]

----------------------------------------------------------------------------
(* Specification SpecLetterbox: the letterbox arithmetic of _prepareInput  *)
(* (and of detectFaces in modelloader.js) on images of any shape           *)

ImageSides == { 1, 2, 3, 64, 127, 128, 129, 255, 256, 257, 480, 640, 1000, 4000 }

LetterboxMetas == [ width : ImageSides, height : ImageSides ]

InitLetterbox ==
    /\ LbIdle
    /\ NmsIdle
    /\ DetIdle
    /\ FpIdle
    /\ ValIdle
    /\ EmbIdle
    /\ CmpIdle
    /\ BoxIdle
    /\ RqIdle
    /\ DecIdle
    /\ SelIdle
    /\ TtaIdle

\* FaceDetectionService._prepareInput, up to the call of sharp
ServicePrepareInput ==
    /\ lbPc = "idle"
    /\ \E meta \in LetterboxMetas :
        /\ lbMeta' = Some(meta)
        /\ lbTransform' = Some(prepareInput(meta))
    /\ lbImpl' = "service"
    /\ lbPc' = "done"
    /\ UNCHANGED exceptLb

\* modelloader.js detectFaces, lines 236-243
LegacyPrepareInput ==
    /\ lbPc = "idle"
    /\ \E meta \in LetterboxMetas :
        /\ lbMeta' = Some(meta)
        /\ lbTransform' = Some(prepareInput(meta))
    /\ lbImpl' = "legacy"
    /\ lbPc' = "done"
    /\ UNCHANGED exceptLb

NextLetterbox == ServicePrepareInput \/ LegacyPrepareInput

SpecLetterbox == InitLetterbox /\ [][NextLetterbox]_vars

\* the paddings are not negative and fill the resized image up to the
\* target size on both axes
PaddingsFill ==
    LET t == Get(lbTransform)
    IN  /\ t.leftPad >= 0 /\ t.rightPad >= 0 /\ t.topPad >= 0 /\ t.bottomPad >= 0
        /\ t.leftPad + t.newWidth + t.rightPad = targetSize
        /\ t.topPad + t.newHeight + t.bottomPad = targetSize

\* C28: for every image of width >= 1 and height >= 1 the letterbox
\* preparation computes 1 <= newWidth <= targetSize and
\* 1 <= newHeight <= targetSize, four paddings that are not negative, and
\* leftPad + newWidth + rightPad = topPad + newHeight + bottomPad = targetSize.
C28_LetterboxSizes ==
    (lbPc = "done" /\ Get(lbMeta).width >= 1 /\ Get(lbMeta).height >= 1) =>
        /\ 1 <= Get(lbTransform).newWidth
        /\ Get(lbTransform).newWidth <= targetSize
        /\ 1 <= Get(lbTransform).newHeight
        /\ Get(lbTransform).newHeight <= targetSize
        /\ PaddingsFill

\* what holds for every image: sizes from 0 to targetSize, paddings that fill
LetterboxSizesFromZero ==
    lbPc = "done" =>
        /\ Get(lbTransform).newWidth \in 0..targetSize
        /\ Get(lbTransform).newHeight \in 0..targetSize
        /\ PaddingsFill

\* and the sizes are at least 1 when neither side is more than 256 times
\* the other
LetterboxSizesModerateShape ==
    ( /\ lbPc = "done"
      /\ Get(lbMeta).width <= 2 * targetSize * Get(lbMeta).height
      /\ Get(lbMeta).height <= 2 * targetSize * Get(lbMeta).width ) =>
        /\ Get(lbTransform).newWidth >= 1
        /\ Get(lbTransform).newHeight >= 1
====
